---- MODULE Spec2Model ----
(***************************************************************************)
(* Verification model of the vector index of mcp-atlassian: the sync       *)
(* engine (vector/sync.py), the LanceDB store (vector/store.py), the       *)
(* embedding pipeline (vector/embeddings.py) and the background scheduler  *)
(* (vector/scheduler.py, web/server.py, web/routes/admin.py).              *)
(*                                                                         *)
(* A sync run is a coroutine.  It is modelled as a task with a program     *)
(* counter; the event loop runs one task at a time and switches tasks only *)
(* where the coroutine really suspends (the embedding provider call).      *)
(***************************************************************************)
EXTENDS Integers, Sequences, FiniteSets, TLC

(***************************************************************************)
(* Bounds of the model.                                                    *)
(***************************************************************************)
MaxEvents == 4      \* events of the environment in one behaviour: sync runs
                    \* started, changes on the tracker, injected failures

(***************************************************************************)
(* Program constants, scaled down so that paging and batching happen with  *)
(* a handful of issues.  The source values are 1000, 100, 100, 100, 500.   *)
(* The order PageLimit >= batch sizes of the source is kept.               *)
(***************************************************************************)
PageLimit == 2          \* sync.py:410  limit=1000
FullEmbedBatch == 2     \* sync.py:385  embed_batch_size = 100 (full sync)
ConfigBatchSize == 2    \* config.py:76 VECTOR_BATCH_SIZE default 100
DetectBatchSize == 2    \* sync.py:283  batch_size: int = 100
DeleteBatchSize == 2    \* store.py:399 batch_size = 500
TicksPerMinute == 2     \* sync.py:367  strftime("%Y-%m-%d %H:%M") drops the seconds
DatetimeMin == 0        \* sync.py:42   datetime.min
Floor2022 == 1          \* sync.py:378  updated >= "2022-01-01"

Keys == 1..4             \* issues P-1, P-2, P-3 and Q-4
Projects == {"P", "Q"}
Tasks == {"cli", "sched", "once"}
NoKey == 0              \* last_key: str | None = None

VARIABLES
    remote,     \* the tracker: key -> [present, summary, assignee, updated]
    clock,      \* the tracker's clock / utcnow()
    table,      \* LanceDB issues table: sequence of rows (append order)
    file,       \* sync_state.json: [kind, data]
    cache,      \* embedding cache: set of texts with a stored vector
    cfg,        \* VectorConfig: [sync_comments, sync_projects]
    run,        \* task -> locals of its sync coroutine (pc, state, result, ...)
    running,    \* the task holding the event loop, or "none"
    runs,       \* number of sync runs started
    faults,     \* number of failures injected
    writer,     \* the task that last called a writing operation of the store
    call,       \* the last direct call of a store operation:
                \* [op, records, before, fault, raised]
    web,        \* the web server: [active, failed, cancels] (_active_sync_engine,
                \* failed syncs, calls of the cancel endpoint)
    pcache,     \* PersistentEmbeddingCache: [max_entries, rows, now]
    cop,        \* the last direct call of the persistent cache:
                \* [op, key, ret, before, n, prev]
    pipe,       \* EmbeddingPipeline: [provider, cache_embeddings, memory,
                \* permits, inflight, ncalls]
    callers,    \* caller -> locals of its embed / embed_batch coroutine
    sq,         \* self-query parser: [use_cache, cache, now, calls, ret]
    hs,         \* a search of the store: its arguments and what it returned
    sch         \* SyncScheduler: [running, task, sync_count, error_count, loops,
                \* stops, ...]

side == <<pcache, cop, pipe, callers, sq, hs, sch>>

vars == <<remote, clock, table, file, cache, cfg, run, running, runs, faults,
          writer, call, web, side>>

aux == <<call, web, side>>

(***************************************************************************)
(* Small helpers on sequences and sets.                                    *)
(***************************************************************************)
Range(s) == {s[i] : i \in 1..Len(s)}

Min2(a, b) == IF a <= b THEN a ELSE b

SelectIdx(s, I) ==
    \* the subsequence of s at the positions in I, in order
    LET F[i \in 0..Len(s)] ==
            IF i = 0 THEN <<>>
            ELSE IF i \in I THEN Append(F[i - 1], s[i]) ELSE F[i - 1]
    IN F[Len(s)]

Take(s, n) == SubSeq(s, 1, Min2(n, Len(s)))

\* chunked(iterable, size): [iterable[i:i+size] for i in range(0, len, size)]
chunked(s, size) ==
    [c \in 1..((Len(s) + size - 1) \div size) |->
        SubSeq(s, (c - 1) * size + 1, Min2(c * size, Len(s)))]

(***************************************************************************)
(* Issue keys.  Key k stands for "<project>-<k>"; the project prefix is    *)
(* what issue.key.split("-")[0] returns.                                   *)
(***************************************************************************)
ProjectKeyOf(k) == IF k <= 3 THEN "P" ELSE "Q"

(***************************************************************************)
(* schemas.py                                                              *)
(***************************************************************************)
\* MD5 over summary|description|sorted(labels)|status: the semantic fields
\* only.  assignee and updated_at do not enter the hash.
compute_content_hash(summary) == <<"md5", summary>>

\* The embedding text: summary, type, project, status, labels, components,
\* description.  Neither the key nor the assignee is part of it.
prepare_issue_for_embedding(issue) == <<"text", issue.project_key, issue.summary>>

\* The provider is a function of the text.
EmbeddingOf(text) == <<"vec", text>>

(***************************************************************************)
(* The remote tracker (JiraFacade.search_issues).  A JQL query is the      *)
(* record [project, floor, order, last_key]; the answer is the first       *)
(* `limit` matching issues in the requested order.                         *)
(***************************************************************************)
Matching(jql) ==
    {k \in Keys :
        /\ remote[k].present
        /\ ProjectKeyOf(k) = jql.project
        /\ remote[k].updated >= jql.floor
        /\ (jql.last_key = NoKey \/ k < jql.last_key)}

\* ORDER BY key DESC, or ORDER BY updated ASC (ties by key)
Before(a, b, order) ==
    IF order = "key_desc" THEN a >= b
    ELSE \/ remote[a].updated < remote[b].updated
         \/ remote[a].updated = remote[b].updated /\ a <= b

RECURSIVE SortBy(_, _)
SortBy(S, order) ==
    IF S = {} THEN <<>>
    ELSE LET first == CHOOSE k \in S : \A j \in S : Before(k, j, order)
         IN <<first>> \o SortBy(S \ {first}, order)

search_issues(jql, limit) == Take(SortBy(Matching(jql), jql.order), limit)

\* jql = f"key in ({keys_str})": the keys of the batch that still exist
search_keys(batch) == {k \in Range(batch) : remote[k].present}

(***************************************************************************)
(* store.py: LanceDBStore on the issues table.  Every operation is a       *)
(* function of the table; `fails` says that the LanceDB call raises.       *)
(***************************************************************************)
IdsOf(tbl) == {tbl[i].issue_id : i \in 1..Len(tbl)}

\* clear_issues(project_key): the delete is wrapped in try/except and a
\* failure returns 0 with the rows still there.
clear_issues(tbl, project_key, fails) ==
    IF fails THEN [table |-> tbl, ret |-> 0]
    ELSE LET keep(r) == r.project_key # project_key
             gone(r) == r.project_key = project_key
         IN [table |-> SelectSeq(tbl, keep), ret |-> Len(SelectSeq(tbl, gone))]

\* dict keyed by issue_id: first position of the key, last value stored
DictPut(d, rec) ==
    IF \E i \in 1..Len(d) : d[i].issue_id = rec.issue_id
    THEN [i \in 1..Len(d) |-> IF d[i].issue_id = rec.issue_id THEN rec ELSE d[i]]
    ELSE Append(d, rec)

DedupLast(records) ==
    LET F[i \in 0..Len(records)] ==
            IF i = 0 THEN <<>> ELSE DictPut(F[i - 1], records[i])
    IN F[Len(records)]

\* bulk_insert_issues(issues): dedup within the batch, then table.add
bulk_insert_issues(tbl, issues, fails) ==
    IF issues = <<>> THEN [table |-> tbl, ret |-> 0, raised |-> FALSE]
    ELSE LET unique_issues == DedupLast(issues)
         IN IF fails THEN [table |-> tbl, ret |-> 0, raised |-> TRUE]
            ELSE [table |-> tbl \o unique_issues, ret |-> Len(unique_issues),
                  raised |-> FALSE]

\* _get_existing_issue_ids(issue_ids): where issue_id IN (...) limit(len(ids));
\* an exception returns []
get_existing_issue_ids(tbl, issue_ids, fails) ==
    IF issue_ids = <<>> \/ fails THEN {}
    ELSE LET hit(r) == r.issue_id \in Range(issue_ids)
         IN IdsOf(Take(SelectSeq(tbl, hit), Len(issue_ids)))

\* upsert_issues(issues): fault is "none", or the call that raises:
\* "lookup" (swallowed in _get_existing_issue_ids), "delete", "add"
upsert_issues(tbl, issues, fault) ==
    IF issues = <<>> THEN [table |-> tbl, ret |-> 0, raised |-> FALSE]
    ELSE
    LET ids == [i \in 1..Len(issues) |-> issues[i].issue_id]
        existing_ids == get_existing_issue_ids(tbl, ids, fault = "lookup")
        isupd(r) == r.issue_id \in existing_ids
        isins(r) == r.issue_id \notin existing_ids
        updates == SelectSeq(issues, isupd)
        inserts == SelectSeq(issues, isins)
        keep(r) == r.issue_id \notin existing_ids
        afterDelete == IF updates # <<>> THEN SelectSeq(tbl, keep) ELSE tbl
        all_records == updates \o inserts
    IN IF updates # <<>> /\ fault = "delete"
       THEN [table |-> tbl, ret |-> 0, raised |-> TRUE]
       ELSE IF fault = "add"
       THEN [table |-> afterDelete, ret |-> 0, raised |-> TRUE]
       ELSE [table |-> afterDelete \o all_records, ret |-> Len(all_records),
             raised |-> FALSE]

\* get_issue_by_key(issue_key): limit(1); an exception returns None (<<>>)
get_issue_by_key(tbl, issue_key, fails) ==
    LET hit(r) == r.issue_id = issue_key
    IN IF fails THEN <<>> ELSE Take(SelectSeq(tbl, hit), 1)

\* get_all_issue_ids(project_key).  The class defines the method twice
\* (store.py 336 and 918); the second definition is the one Python binds: it
\* returns a list, one id per row in table order, and [] on an exception.
get_all_issue_ids(tbl, project_key, fails) ==
    LET hit(r) == r.project_key = project_key
        rows == SelectSeq(tbl, hit)
    IN IF fails THEN <<>> ELSE [i \in 1..Len(rows) |-> rows[i].issue_id]

\* delete_issues_by_ids(issue_ids): batches of DeleteBatchSize; fail_at is the
\* batch whose delete raises (0: none).  Earlier batches stay deleted and the
\* call returns 0.
delete_issues_by_ids(tbl, issue_ids, fail_at) ==
    LET batches == chunked(issue_ids, DeleteBatchSize)
        done == IF fail_at = 0 THEN Len(batches) ELSE Min2(fail_at - 1, Len(batches))
        gone == UNION {Range(batches[b]) : b \in 1..done}
        keep(r) == r.issue_id \notin gone
    IN IF issue_ids = <<>> THEN [table |-> tbl, ret |-> 0]
       ELSE [table |-> SelectSeq(tbl, keep),
             ret |-> IF fail_at = 0 \/ fail_at > Len(batches)
                     THEN Len(issue_ids) ELSE 0]

(***************************************************************************)
(* embeddings.py: EmbeddingPipeline.embed_batch.  `cached` is the set of   *)
(* texts the cache answers; `failed` is the set of provider chunks whose   *)
(* call raises after its retries.                                          *)
(***************************************************************************)
UncachedIndices(texts, cached) ==
    LET idx == [i \in 1..Len(texts) |-> i]
        miss(i) == texts[i] \notin cached
    IN SelectSeq(idx, miss)

NumChunks(texts, cached) ==
    Len(chunked(UncachedIndices(texts, cached), ConfigBatchSize))

embed_batch(texts, cached, failed) ==
    LET uncached_indices == UncachedIndices(texts, cached)
        chunks == chunked(uncached_indices, ConfigBatchSize)
        okIdx == {i \in 1..Len(texts) :
                    \/ texts[i] \in cached
                    \/ \E c \in 1..Len(chunks) :
                          c \notin failed /\ i \in Range(chunks[c])}
        results == [i \in 1..Len(texts) |-> EmbeddingOf(texts[i])]
    IN [vectors |-> SelectIdx(results, okIdx),     \* [r for r in results if r is not None]
        cache |-> cached \cup
                  {texts[i] : i \in {j \in okIdx : texts[j] \notin cached}}]

(***************************************************************************)
(* embeddings.py: PersistentEmbeddingCache, the SQLite table embeddings    *)
(* (content_hash PRIMARY KEY, embedding, created_at, last_accessed).  A    *)
(* cache is [max_entries, rows, now]; now is time.time(), which is later   *)
(* at every call.                                                          *)
(***************************************************************************)
MaxEntriesDefault == 100000    \* embeddings.py:212 max_entries=100_000

NoVector == <<>>               \* None

json_dumps(embedding) == <<"json", embedding>>

json_loads(text) == text[2]

EmptyCache(max_entries) == [max_entries |-> max_entries, rows |-> {}, now |-> 1]

HashesOf(rows) == {r.content_hash : r \in rows}

RowOf(rows, content_hash) == CHOOSE r \in rows : r.content_hash = content_hash

\* an eviction that orders by last_accessed DESC
OldestRows_desc(rows, n) ==
    {r \in rows : Cardinality({q \in rows : q.last_accessed > r.last_accessed}) < n}

\* SELECT content_hash FROM embeddings ORDER BY last_accessed ASC LIMIT n
OldestRows(rows, n) ==
    {r \in rows : Cardinality({q \in rows : q.last_accessed < r.last_accessed}) < n}

\* _evict_if_needed: over the limit, delete int(max_entries * 0.1) rows
evict_if_needed(rows, max_entries) ==
    LET count == Cardinality(rows)
        to_delete == max_entries \div 10
    IN IF count > max_entries THEN rows \ OldestRows(rows, to_delete) ELSE rows

\* set(content_hash, embedding): INSERT OR REPLACE, then evict
cache_set(pc, content_hash, embedding) ==
    LET row == [content_hash |-> content_hash, embedding |-> json_dumps(embedding),
                created_at |-> pc.now, last_accessed |-> pc.now]
        replaced == {r \in pc.rows : r.content_hash # content_hash} \cup {row}
    IN [pc EXCEPT !.rows = evict_if_needed(replaced, pc.max_entries),
                  !.now = @ + 1]

\* get(content_hash): the stored vector, with last_accessed set to now, or None
cache_get(pc, content_hash) ==
    IF content_hash \in HashesOf(pc.rows)
    THEN LET row == RowOf(pc.rows, content_hash)
         IN [cache |-> [pc EXCEPT !.rows = (@ \ {row}) \cup
                                     {[row EXCEPT !.last_accessed = pc.now]},
                                  !.now = @ + 1],
             ret |-> json_loads(row.embedding)]
    ELSE [cache |-> [pc EXCEPT !.now = @ + 1], ret |-> NoVector]

\* clear(): DELETE FROM embeddings
cache_clear(pc) == [pc EXCEPT !.rows = {}, !.now = @ + 1]

(***************************************************************************)
(* embeddings.py: EmbeddingPipeline, one instance with several callers.    *)
(* memory is the hot cache (cache key -> vector), permits the number of    *)
(* holders of the semaphore, inflight the number of provider calls that    *)
(* have started and not returned.                                          *)
(***************************************************************************)
MaxConcurrent == 1      \* config.py:80  VECTOR_MAX_CONCURRENT_EMBEDDINGS default 5
MaxAttempts == 5        \* embeddings.py:402  stop_after_attempt(5)

Callers == {"a", "b"}

get_cache_key(text) == <<"md5", text>>

\* a lookup that never asks the persistent cache
get_cached_hot(memory, pc, cache_embeddings, cache_key, fails) ==
    [memory |-> memory, pcache |-> pc,
     ret |-> IF cache_key \in DOMAIN memory THEN memory[cache_key] ELSE NoVector,
     raised |-> FALSE]

\* _get_cached: the hot cache first, then the persistent one, if enabled,
\* whose hit is promoted.  fails: the SQLite read raises.
get_cached(memory, pc, cache_embeddings, cache_key, fails) ==
    IF cache_key \in DOMAIN memory
    THEN [memory |-> memory, pcache |-> pc, ret |-> memory[cache_key], raised |-> FALSE]
    ELSE IF ~cache_embeddings
    THEN [memory |-> memory, pcache |-> pc, ret |-> NoVector, raised |-> FALSE]
    ELSE IF fails
    THEN [memory |-> memory, pcache |-> pc, ret |-> NoVector, raised |-> TRUE]
    ELSE LET got == cache_get(pc, cache_key)
         IN [memory |-> IF got.ret # NoVector
                        THEN (cache_key :> got.ret) @@ memory ELSE memory,
             pcache |-> got.cache, ret |-> got.ret, raised |-> FALSE]

\* _set_cached: the hot cache, then the persistent one, if enabled.
\* fails: the SQLite write raises.
set_cached(memory, pc, cache_embeddings, cache_key, embedding, fails) ==
    [memory |-> (cache_key :> embedding) @@ memory,
     pcache |-> IF cache_embeddings /\ ~fails THEN cache_set(pc, cache_key, embedding)
                ELSE pc,
     raised |-> cache_embeddings /\ fails]

EmptyTrace ==
    [snap |-> {},       \* cache keys a lookup could find when the call started
     sent |-> <<>>,     \* the chunks (of input positions) sent to the provider
     embedded |-> {},   \* input positions whose vector the provider returned
     given_up |-> {},   \* chunks given up
     last_try |-> [attempts |-> 0, last |-> "none"],  \* the chunk that ended last
     retried |-> {},    \* outcomes after which the call was made again
     cache_raised |-> FALSE]  \* a cache read or write raised during the call

IdleCaller ==
    [pc |-> "idle", mode |-> "batch", texts |-> <<>>, results |-> <<>>,
     chunks |-> <<>>, ci |-> 1, attempt |-> 0, ret |-> <<>>, raised |-> FALSE,
     t |-> EmptyTrace]

IdlePipe(provider, cache_embeddings) ==
    [provider |-> provider, cache_embeddings |-> cache_embeddings,
     memory |-> <<>>, permits |-> 0, inflight |-> 0, ncalls |-> 0]

(***************************************************************************)
(* store.py: vector, lexical and hybrid search.  `hits` is what LanceDB     *)
(* has for the query after the filters, nearest first: rows                *)
(* [issue_id, distance, text_score], distance and scores in hundredths;     *)
(* text_score 0: the row does not match the query text.                    *)
(***************************************************************************)
One == 100              \* 1.0 in hundredths
FetchFloor == 100       \* store.py:435  max((limit + offset) * 5, 100)
LikeScore == 50         \* store.py:585  r["score"] = 0.5

Max2(a, b) == IF a >= b THEN a ELSE b

\* similarity = max(0.0, min(1.0, 1.0 - distance))
similarity(distance) == Max2(0, Min2(One, One - distance))

Page(s, offset, limit) == SubSeq(s, offset + 1, Min2(offset + limit, Len(s)))

\* store.py 414-468 (the tracker's search_issues is the operator above)
vector_search_issues(hits, limit, offset, min_score) ==
    LET fetch_limit == IF min_score > 0
                       THEN Max2((limit + offset) * 5, FetchFloor)
                       ELSE (limit + offset) * 3
        results == Take(hits, fetch_limit)
        all_matching[i \in 0..Len(results)] ==
            IF i = 0 THEN <<>>
            ELSE LET r == results[i]
                     seen_ids == {all_matching[i - 1][j].issue_id :
                                      j \in 1..Len(all_matching[i - 1])}
                 IN IF r.issue_id \notin seen_ids /\ similarity(r.distance) >= min_score
                    THEN Append(all_matching[i - 1],
                                [issue_id |-> r.issue_id,
                                 score |-> similarity(r.distance)])
                    ELSE all_matching[i - 1]
    IN [results |-> Page(all_matching[Len(results)], offset, limit),
        total_count |-> Len(all_matching[Len(results)])]

\* _full_text_search / _like_search: the rows that match the text, at most
\* limit of them, each with its text score
full_text_search(hits, limit) ==
    LET matches(r) == r.text_score > 0
        found == Take(SelectSeq(hits, matches), limit)
    IN [i \in 1..Len(found) |->
           [issue_id |-> found[i].issue_id, score |-> found[i].text_score]]

\* _fuse_results: scores in hundredths of hundredths.  combined is the
\* dict in insertion order: the vector results, then the new text results.
fuse_results(vector_results, fts_results, fts_weight) ==
    LET vector_weight == One - fts_weight
        from_vector == [i \in 1..Len(vector_results) |->
                           [issue_id |-> vector_results[i].issue_id,
                            vector_score |-> vector_results[i].score,
                            fts_score |-> 0]]
        combined[i \in 0..Len(fts_results)] ==
            IF i = 0 THEN from_vector
            ELSE LET r == fts_results[i]
                     c == combined[i - 1]
                 IN IF \E j \in 1..Len(c) : c[j].issue_id = r.issue_id
                    THEN [j \in 1..Len(c) |->
                             IF c[j].issue_id = r.issue_id
                             THEN [c[j] EXCEPT !.fts_score = r.score] ELSE c[j]]
                    ELSE Append(c, [issue_id |-> r.issue_id, vector_score |-> 0,
                                    fts_score |-> r.score])
        all == combined[Len(fts_results)]
    IN [i \in 1..Len(all) |->
           [issue_id |-> all[i].issue_id,
            score |-> vector_weight * all[i].vector_score
                          + fts_weight * all[i].fts_score]]

\* list.sort(key=score, reverse=True): stable
RECURSIVE sort_by_score(_)
sort_by_score(s) ==
    IF s = <<>> THEN <<>>
    ELSE LET best == CHOOSE i \in 1..Len(s) :
                         /\ \A j \in 1..Len(s) : s[j].score <= s[i].score
                         /\ \A j \in 1..(i - 1) : s[j].score < s[i].score
         IN <<s[best]>> \o sort_by_score(SelectIdx(s, (1..Len(s)) \ {best}))

\* hybrid_search 470-522; min_score and fts_weight in hundredths
hybrid_search(hits, limit, offset, fts_weight, min_score) ==
    LET vector_results == vector_search_issues(hits, (limit + offset) * 3, 0,
                                               min_score \div 2).results
        fts_results == full_text_search(hits, (limit + offset) * 3)
        combined == fuse_results(vector_results, fts_results, fts_weight)
        passes(r) == r.score >= min_score * One
        filtered == sort_by_score(SelectSeq(combined, passes))
    IN [results |-> Page(filtered, offset, limit),
        total_count |-> Len(filtered)]

NoResults == [results |-> <<>>, total_count |-> 0]

NoSearch ==
    [hits |-> <<>>, limit |-> 0, offset |-> 0, fts_weight |-> 0, min_score |-> 0,
     pc |-> "idle", hybrid |-> NoResults, vector |-> NoResults, lexical |-> <<>>]

(***************************************************************************)
(* self_query.py: SelfQueryParser and the module's query cache.            *)
(* Time is counted in units of 100 seconds.                                *)
(***************************************************************************)
CacheTtl == 3           \* self_query.py:24  _CACHE_TTL_SECONDS = 300
CacheMaxSize == 1000    \* self_query.py:25  _CACHE_MAX_SIZE
Day == 864              \* timedelta(days=1)

\* filters: a set of [field, op, operand]; an operand is the marker
\* "RELATIVE:<expr>" or an ISO date
Relative(expr) == [kind |-> "RELATIVE", expr |-> expr, date |-> 0]
Iso(date) == [kind |-> "iso", expr |-> "", date |-> date]
NoFilters == {}
RelativeFilter(expr) == {[field |-> "created_at", op |-> ">=", operand |-> Relative(expr)]}
AbsoluteFilter(date) == {[field |-> "created_at", op |-> ">=", operand |-> Iso(date)]}

NoDate == -1000000

\* parse_date_expression with _now() = now: the patterns of DATE_PATTERNS
\* that the answers of the model use; NoDate (None) for an expression that
\* matches no pattern
parse_date_expression(expr, now) ==
    IF expr = "last 1 days" THEN now - Day
    ELSE IF expr = "last week" THEN now - 7 * Day
    ELSE NoDate

\* what the LLM gave is kept when the expression cannot be parsed
resolve_operand(operand, now) ==
    IF operand.kind = "RELATIVE"
    THEN LET resolved_date == parse_date_expression(operand.expr, now)
         IN IF resolved_date # NoDate THEN Iso(resolved_date) ELSE operand
    ELSE operand

resolve_relative_dates(filters, now) ==
    {[f EXCEPT !.operand = resolve_operand(@, now)] : f \in filters}

\* a query: its normalised text and how it was typed
Query(words, typed) == [words |-> words, typed |-> typed]
query_cache_key(query) == <<"md5", query.words>>
IsBlank(query) == query.words = ""

ParsedQuery(semantic_query, filters, interpretation, confidence, raw_query) ==
    [semantic_query |-> semantic_query, filters |-> filters,
     interpretation |-> interpretation, confidence |-> confidence,
     raw_query |-> raw_query]

\* _get_cached: [cache, ret]; an expired entry is deleted
query_get_cached(qc, cache_key, now) ==
    IF cache_key \in DOMAIN qc
    THEN IF now - qc[cache_key].timestamp < CacheTtl
         THEN [cache |-> qc, hit |-> TRUE]
         ELSE [cache |-> [k \in DOMAIN qc \ {cache_key} |-> qc[k]], hit |-> FALSE]
    ELSE [cache |-> qc, hit |-> FALSE]

\* _set_cached: when full, the CacheMaxSize \div 10 oldest entries go first.
\* llm_filters: the filters as the LLM gave them (history, not in the code)
query_set_cached(qc, cache_key, parsed, llm_filters, now) ==
    LET older(k) == {j \in DOMAIN qc : qc[j].timestamp < qc[k].timestamp}
        evicted == IF Cardinality(DOMAIN qc) >= CacheMaxSize
                   THEN CHOOSE d \in SUBSET DOMAIN qc :
                            /\ Cardinality(d) = CacheMaxSize \div 10
                            /\ \A k \in d : older(k) \subseteq d
                   ELSE {}
        kept == [k \in DOMAIN qc \ evicted |-> qc[k]]
    IN (cache_key :> [parsed |-> parsed, timestamp |-> now,
                      llm_filters |-> llm_filters]) @@ kept

NoParse == [query |-> Query("", "plain"), at |-> 0, from_cache |-> FALSE,
            llm_filters |-> NoFilters,
            out |-> ParsedQuery("", NoFilters, "", 0, Query("", "plain"))]

IdleParser(use_cache) ==
    [use_cache |-> use_cache, cache |-> <<>>, now |-> 0, calls |-> 0,
     ret |-> NoParse]

NoCacheOp ==
    [op |-> "none", key |-> 0, ret |-> NoVector, before |-> {}, n |-> 0,
     prev |-> [op |-> "none", key |-> 0, ret |-> NoVector]]

(***************************************************************************)
(* sync.py: SyncState, SyncResult                                          *)
(***************************************************************************)
DefaultState ==
    [last_sync_at |-> DatetimeMin, last_issue_updated |-> DatetimeMin,
     projects_synced |-> <<>>, total_issues_indexed |-> 0]

EmptyResult ==
    [issues_processed |-> 0, issues_embedded |-> 0, issues_skipped |-> 0,
     issues_deleted |-> 0, errors |-> <<>>]

\* SyncState.load: a missing or unparsable file gives the default state
SyncState_load(f) == IF f.kind = "complete" THEN f.data ELSE DefaultState

\* strftime("%Y-%m-%d %H:%M")
FormatMinute(t) == t - (t % TicksPerMinute)

\* sync.py 365-379: the JQL of a project
build_jql(project_key, incremental, state) ==
    IF incremental /\ state.last_issue_updated > DatetimeMin
    THEN [project |-> project_key, floor |-> FormatMinute(state.last_issue_updated),
          order |-> "updated_asc", last_key |-> NoKey]
    ELSE [project |-> project_key, floor |-> Floor2022,
          order |-> "key_desc", last_key |-> NoKey]

\* sync.py 385
embed_batch_size(incremental) == IF incremental THEN ConfigBatchSize ELSE FullEmbedBatch

\* sync.py 789-858: _issue_to_dict
issue_to_dict(k) ==
    [issue_id |-> k, project_key |-> ProjectKeyOf(k), summary |-> remote[k].summary,
     assignee |-> remote[k].assignee, updated_at |-> remote[k].updated]

\* a max_updated that follows the last issue seen instead of the latest one
track_max_updated_last(max_updated, updated_at_dt) == updated_at_dt

\* sync.py 460-461.  Timestamps are integers: the datetimes the run compares
\* are all naive or all aware, as in tests/unit/vector/test_sync.py 255, 288,
\* and every updated_at parses (the ValueError branch of 455-456 is not taken).
track_max_updated(max_updated, updated_at_dt) ==
    IF updated_at_dt > max_updated THEN updated_at_dt ELSE max_updated

\* sync.py 501-502
advance_watermark(last_issue_updated, max_updated) ==
    IF max_updated > last_issue_updated THEN max_updated ELSE last_issue_updated

\* sync.py 441: existing and existing.content_hash == content_hash
hash_unchanged(existing, content_hash) ==
    existing # <<>> /\ existing[1].content_hash = content_hash

\* sync.py 553-576: the JiraIssueEmbedding built from an issue and a vector
make_record(issue, embedding) ==
    [issue_id |-> issue.issue_id, project_key |-> issue.project_key,
     summary |-> issue.summary, assignee |-> issue.assignee,
     content_hash |-> issue.content_hash, updated_at |-> issue.updated_at,
     vector |-> embedding]

\* sync.py 527-585: _embed_and_store.  zip(issues, embeddings, strict=False)
\* pairs position by position and stops at the shorter list.
embed_and_store(issues, bulk_insert, tbl, cached, failed, store_fault) ==
    LET texts == [i \in 1..Len(issues) |-> prepare_issue_for_embedding(issues[i])]
        e == embed_batch(texts, cached, failed)
        n == Min2(Len(issues), Len(e.vectors))
        records == [i \in 1..n |-> make_record(issues[i], e.vectors[i])]
        st == IF bulk_insert
              THEN bulk_insert_issues(tbl, records, store_fault = "add")
              ELSE upsert_issues(tbl, records, store_fault)
    IN IF issues = <<>>
       THEN [table |-> tbl, cache |-> cached, ret |-> 0, raised |-> FALSE,
             records |-> <<>>, called |-> FALSE]
       ELSE [table |-> st.table, cache |-> e.cache, ret |-> st.ret,
             raised |-> st.raised, records |-> IF st.raised THEN <<>> ELSE records,
             called |-> records # <<>>]

(***************************************************************************)
(* The locals of one sync coroutine.  g holds history of the current run,  *)
(* used only to state properties.                                          *)
(***************************************************************************)
NoJql == [project |-> "", floor |-> 0, order |-> "key_desc", last_key |-> NoKey]

EmptyHistory ==
    [prior |-> DatetimeMin,   \* persisted last_issue_updated when the run loaded it
     table0 |-> <<>>,         \* the table when the run started
     gone |-> {},             \* keys absent from the tracker when the run started
     returned |-> {},         \* keys the project queries returned
     sent |-> {},             \* keys handed to the embedding pipeline
     stored |-> {},           \* <<key, updated_at>> of the records stored
     hash_skips |-> <<>>,     \* keys skipped because the hash matched, one per skip
     exist_log |-> {},        \* existence queries: [batch, ok, existing]
     deleted_ids |-> {},      \* keys handed to delete_issues_by_ids
     outcomes |-> <<>>,       \* per project: [project, raised, result]
     embed_failed |-> FALSE,  \* a provider chunk failed
     store_failed |-> FALSE,  \* a store call of _embed_and_store raised
     cut_short |-> FALSE,     \* a page loop ended on an exception
     removed |-> {},          \* keys the deletion pass took out of the table
     detect_store_failed |-> FALSE,  \* a store call of the deletion pass raised
     failed_stored |-> FALSE, \* an issue of a failed provider chunk was stored
     dropped_rest |-> FALSE,  \* a failed batch ended the loop with pages left
     comment_failed |-> {},   \* projects whose comment sync met an error
     wrote |-> FALSE,         \* this run has written to the issues table
     interleaved |-> FALSE,   \* another run wrote to the table between two
                              \* writes of this run
     cancel_mark |-> <<>>]    \* <<returned>> when cancel() was called on the
                              \* engine of the run in flight

IdleRun ==
    [pc |-> "idle", incremental |-> FALSE, state |-> DefaultState,
     result |-> EmptyResult, projects |-> <<>>, pi |-> 1, di |-> 1,
     presult |-> EmptyResult, jql |-> NoJql, issues_to_embed |-> <<>>,
     synced_ids |-> {}, max_updated |-> DatetimeMin, after |-> "fetch",
     g |-> EmptyHistory]

\* The event loop: a task runs until its coroutine suspends.
CanRun(t) == running \in {"none", t}

HasUncached(issues, cached) ==
    \E i \in 1..Len(issues) : prepare_issue_for_embedding(issues[i]) \notin cached

Suspends(r, cached) ==
    \/ r.pc \in {"idle", "done"}
    \/ r.pc \in {"embed", "rest"} /\ HasUncached(r.issues_to_embed, cached)

Resume(t, r, cached) ==
    /\ run' = [run EXCEPT ![t] = r]
    /\ running' = IF Suspends(r, cached) THEN "none" ELSE t

\* History of the table's writers: r is the task's record after a step;
\* called says that the step called a store operation that writes the table.
Written(t, r, called) ==
    [r EXCEPT !.g.wrote = @ \/ called,
              !.g.interleaved = @ \/ (called /\ r.g.wrote /\ writer # t)]

LastWriter(t, called) == IF called THEN t ELSE writer

\* The environment's budget: runs started, remote changes, failures.
InitClock == 2 * TicksPerMinute
Events == runs + faults + (clock - InitClock) + web.failed + web.cancels

Fault(n) == /\ Events + n <= MaxEvents
            /\ faults' = faults + n

AllProjects == <<"P", "Q">>
ProjectArgs == {<<>>, <<"P">>}

\* where the project loop goes after project number pi
AfterProject(r) ==
    IF r.pi + 1 <= Len(r.projects) THEN "begin"
    ELSE IF r.incremental /\ r.result.issues_processed > 0 THEN "detect"
    ELSE "finalize"

FirstPc(r) ==
    IF r.projects # <<>> THEN "begin"
    ELSE IF r.incremental /\ r.result.issues_processed > 0 THEN "detect"
    ELSE "finalize"

(***************************************************************************)
(* sync.py 147-173: full_sync up to the project loop                       *)
(***************************************************************************)
full_sync(t, projects, projects_raise) ==
    /\ run[t].pc \in {"idle", "done"}
    /\ CanRun(t)
    /\ Events < MaxEvents
    /\ runs' = runs + 1
    /\ projects_raise => projects = <<>> /\ cfg.sync_projects = <<>>
    /\ Fault(IF projects_raise THEN 1 ELSE 0)
    /\ LET state == SyncState_load(file)
           projects_to_sync ==
               IF projects # <<>> THEN projects
               ELSE IF cfg.sync_projects # <<>> THEN cfg.sync_projects
               ELSE IF projects_raise THEN <<>>   \* _get_all_projects: except -> []
               ELSE AllProjects
           r0 == [IdleRun EXCEPT !.incremental = FALSE, !.state = state,
                                 !.projects = projects_to_sync,
                                 !.g.prior = state.last_issue_updated,
                                 !.g.table0 = table,
                                 !.g.gone = {k \in Keys : ~remote[k].present}]
           r == [r0 EXCEPT !.pc = FirstPc(r0)]
       IN Resume(t, r, cache)
    /\ UNCHANGED <<remote, clock, table, file, cache, cfg, aux, writer>>

(***************************************************************************)
(* sync.py 207-239: incremental_sync up to the project loop                *)
(***************************************************************************)
incremental_sync(t, projects) ==
    /\ run[t].pc \in {"idle", "done"}
    /\ CanRun(t)
    /\ Events < MaxEvents
    /\ runs' = runs + 1
    /\ LET state == SyncState_load(file)
           none == /\ projects = <<>>
                   /\ state.projects_synced = <<>>
                   /\ cfg.sync_projects = <<>>
           projects_to_sync ==
               IF projects # <<>> THEN projects
               ELSE IF state.projects_synced # <<>> THEN state.projects_synced
               ELSE cfg.sync_projects
           r0 == [IdleRun EXCEPT !.incremental = TRUE, !.state = state,
                                 !.projects = projects_to_sync,
                                 !.g.prior = state.last_issue_updated,
                                 !.g.table0 = table,
                                 !.g.gone = {k \in Keys : ~remote[k].present}]
           r == [r0 EXCEPT !.pc = IF none THEN "done" ELSE FirstPc(r0)]
       IN Resume(t, r, cache)
    /\ UNCHANGED <<remote, clock, table, file, cache, cfg, faults, aux, writer>>

(***************************************************************************)
(* sync.py 357-389: _sync_project up to the page loop                      *)
(***************************************************************************)
BeginProject(t, clear_fails) ==
    /\ run[t].pc = "begin"
    /\ CanRun(t)
    /\ clear_fails => ~run[t].incremental
    /\ Fault(IF clear_fails THEN 1 ELSE 0)
    /\ LET r == run[t]
           project_key == r.projects[r.pi]
           cleared == clear_issues(table, project_key, clear_fails)
           tbl == IF r.incremental THEN table ELSE cleared.table
       IN /\ table' = tbl
          /\ writer' = LastWriter(t, ~r.incremental)
          /\ Resume(t, Written(t, [r EXCEPT !.pc = "fetch",
                                 !.presult = EmptyResult,
                                 !.jql = build_jql(project_key, r.incremental, r.state),
                                 !.issues_to_embed = <<>>,
                                 !.synced_ids = {},
                                 !.max_updated = r.state.last_issue_updated],
                                  ~r.incremental),
                    cache)
    /\ UNCHANGED <<remote, clock, file, cache, cfg, runs, aux>>

(***************************************************************************)
(* sync.py 419-461: one iteration of the loop over the issues of a page    *)
(***************************************************************************)
process_issue(r, k, tbl, lookup_fails) ==
    LET issue_dict == issue_to_dict(k)
        content_hash == compute_content_hash(issue_dict.summary)
        existing == get_issue_by_key(tbl, k, lookup_fails)
        hashed == [issue_id |-> k, project_key |-> issue_dict.project_key,
                   summary |-> issue_dict.summary, assignee |-> issue_dict.assignee,
                   updated_at |-> issue_dict.updated_at, content_hash |-> content_hash]
        r1 == [r EXCEPT !.presult.issues_processed = @ + 1,
                        !.g.returned = @ \cup {k}]
    IN IF k \in r.synced_ids
       THEN [r1 EXCEPT !.presult.issues_skipped = @ + 1]
       ELSE IF r.incremental /\ hash_unchanged(existing, content_hash)
       THEN [r1 EXCEPT !.presult.issues_skipped = @ + 1,
                       !.g.hash_skips = Append(@, k)]
       ELSE [r1 EXCEPT !.issues_to_embed = DictPut(@, hashed),
                       !.max_updated = track_max_updated(@, issue_dict.updated_at)]

process_page(r, page, tbl, lookup_fails) ==
    LET F[i \in 0..Len(page)] ==
            IF i = 0 THEN r ELSE process_issue(F[i - 1], page[i], tbl, lookup_fails)
    IN F[Len(page)]

\* a page loop that stops after its first page
last_page_always(page) == TRUE

\* sync.py 477-479: fewer results than requested ends the loop
last_page(page) == Len(page) < PageLimit

(***************************************************************************)
(* sync.py 391-485: one turn of the page loop up to the embedding call.    *)
(* fault: "none", "search" (search_issues raises) or "lookup" (the store   *)
(* lookups of this page raise and get_issue_by_key returns None).          *)
(***************************************************************************)
FetchPage(t, fault) ==
    /\ run[t].pc = "fetch"
    /\ CanRun(t)
    /\ fault = "lookup" => run[t].incremental
    /\ Fault(IF fault = "none" THEN 0 ELSE 1)
    /\ LET r == run[t]
           page == search_issues(r.jql, PageLimit)
           r1 == process_page(r, page, table, fault = "lookup")
           r2 == [r1 EXCEPT !.jql.last_key = page[Len(page)]]
           flush == Len(r2.issues_to_embed) >= embed_batch_size(r.incremental)
           next == IF last_page(page) THEN "rest" ELSE "fetch"
       IN IF fault = "search"
          THEN Resume(t, [r EXCEPT !.pc = "rest",
                                   !.presult.errors = Append(@, <<"fetch", r.jql.project>>),
                                   !.g.cut_short = TRUE], cache)
          ELSE IF page = <<>>
          THEN Resume(t, [r EXCEPT !.pc = "rest"], cache)
          ELSE Resume(t, [r2 EXCEPT !.pc = IF flush THEN "embed" ELSE next,
                                    !.after = next], cache)
    /\ UNCHANGED <<remote, clock, table, file, cache, cfg, runs, aux, writer>>

(***************************************************************************)
(* The oracle of one _embed_and_store call: the provider chunks that fail  *)
(* and the store call that raises.                                         *)
(***************************************************************************)
StoreFaults(bulk_insert) ==
    IF bulk_insert THEN {"none", "add"} ELSE {"none", "lookup", "delete", "add"}

FailedChunkSets(issues, cached) ==
    SUBSET (1..NumChunks([i \in 1..Len(issues) |->
                             prepare_issue_for_embedding(issues[i])], cached))

FaultCost(failed, store_fault) ==
    (IF failed = {} THEN 0 ELSE 1) + (IF store_fault = "none" THEN 0 ELSE 1)

KeysOf(issues) == {issues[i].issue_id : i \in 1..Len(issues)}

\* the issues whose text went to a provider chunk that failed
FailedKeys(issues, cached, failed) ==
    LET texts == [i \in 1..Len(issues) |-> prepare_issue_for_embedding(issues[i])]
        chunks == chunked(UncachedIndices(texts, cached), ConfigBatchSize)
    IN {issues[i].issue_id :
           i \in UNION {Range(chunks[c]) : c \in failed \cap (1..Len(chunks))}}

NoteEmbed(g, issues, cached, out, failed) ==
    [g EXCEPT !.sent = @ \cup KeysOf(issues),
              !.stored = @ \cup {<<out.records[i].issue_id, out.records[i].updated_at>> :
                                    i \in 1..Len(out.records)},
              !.embed_failed = @ \/ failed # {},
              !.store_failed = @ \/ out.raised,
              !.failed_stored = @ \/ (KeysOf(out.records)
                                        \cap FailedKeys(issues, cached, failed) # {})]

(***************************************************************************)
(* sync.py 175-192 / 241-254: what the project loop does with the outcome  *)
(* of _sync_project                                                        *)
(***************************************************************************)
add_result(result, project_result) ==
    [result EXCEPT !.issues_processed = @ + project_result.issues_processed,
                   !.issues_embedded = @ + project_result.issues_embedded,
                   !.issues_skipped = @ + project_result.issues_skipped,
                   !.errors = @ \o project_result.errors]

note_synced(projects_synced, project_key) ==
    IF project_key \in Range(projects_synced) THEN projects_synced
    ELSE Append(projects_synced, project_key)

project_returned(r) ==
    LET project_key == r.projects[r.pi]
        r1 == [r EXCEPT !.result = add_result(@, r.presult),
                        !.state.projects_synced =
                            IF r.incremental THEN @ ELSE note_synced(@, project_key),
                        !.g.outcomes = Append(@, [project |-> project_key,
                                                  raised |-> FALSE,
                                                  result |-> r.presult])]
    IN [r1 EXCEPT !.pc = AfterProject(r1), !.pi = @ + 1]

\* a project loop that stops at the first project that raises
project_raised_abort(r, what) ==
    LET project_key == r.projects[r.pi]
    IN [r EXCEPT !.result.errors = Append(@, <<what, project_key>>),
                 !.g.outcomes = Append(@, [project |-> project_key,
                                           raised |-> TRUE,
                                           result |-> r.presult]),
                 !.pc = "finalize", !.pi = Len(r.projects) + 1]

project_raised(r, what) ==
    LET project_key == r.projects[r.pi]
        r1 == [r EXCEPT !.result.errors = Append(@, <<what, project_key>>),
                        !.g.outcomes = Append(@, [project |-> project_key,
                                                  raised |-> TRUE,
                                                  result |-> r.presult])]
    IN [r1 EXCEPT !.pc = AfterProject(r1), !.pi = @ + 1]

\* sync.py 504-514: with sync_comments on and issues embedded, the
\* incremental path iterates the issues_to_embed dict, whose keys are
\* strings, and indexes each (i["issue_id"]): TypeError.  issues_to_embed
\* is not reset after the last batch, so it is empty only if the loop
\* flushed it.
comment_sync_raises(r) ==
    /\ cfg.sync_comments
    /\ r.presult.issues_embedded > 0
    /\ r.incremental
    /\ r.issues_to_embed # <<>>

\* sync.py 504-517: the full path syncs the comments of the first indexed
\* issues of the project
comment_sync_runs(r, tbl) ==
    /\ cfg.sync_comments
    /\ r.presult.issues_embedded > 0
    /\ ~r.incremental
    /\ get_all_issue_ids(tbl, r.projects[r.pi], FALSE) # <<>>

\* sync.py 495-525: the end of _sync_project and its return to the loop.
\* comments is the outcome of _sync_comments_for_issues (587-645): "none"
\* (no error), "errors" (fetching the comments of an issue raised: the error
\* is collected) or "raise" (storing the last comments raised).  The
\* comments table is not part of the state.
post_project(r, comments) ==
    LET r0 == [r EXCEPT !.state.last_issue_updated =
                            advance_watermark(@, r.max_updated)]
        r1 == IF comment_sync_raises(r0) \/ comments # "none"
              THEN [r0 EXCEPT !.g.comment_failed = @ \cup {r.projects[r.pi]}]
              ELSE r0
        r2 == [r1 EXCEPT !.presult.errors = Append(@, <<"comments", r.projects[r.pi]>>)]
    IN IF comment_sync_raises(r1) \/ comments = "raise"
       THEN project_raised(r1, "project")
       ELSE IF comments = "errors" THEN project_returned(r2)
       ELSE project_returned(r1)

(***************************************************************************)
(* sync.py 463-475, 481-485: the batch flush inside the page loop.  An     *)
(* exception of _embed_and_store is caught by the loop's except clause,    *)
(* which records it and breaks.                                            *)
(***************************************************************************)
EmbedBatch(t, failed, store_fault) ==
    /\ run[t].pc = "embed"
    /\ CanRun(t)
    /\ failed \in FailedChunkSets(run[t].issues_to_embed, cache)
    /\ store_fault \in StoreFaults(~run[t].incremental)
    /\ Fault(FaultCost(failed, store_fault))
    /\ LET r == run[t]
           out == embed_and_store(r.issues_to_embed, ~r.incremental, table, cache,
                                  failed, store_fault)
           g1 == NoteEmbed(r.g, r.issues_to_embed, cache, out, failed)
       IN /\ table' = out.table
          /\ cache' = out.cache
          /\ writer' = LastWriter(t, out.called)
          /\ IF out.raised
             THEN Resume(t, Written(t, [r EXCEPT !.pc = "rest",
                                      !.presult.errors =
                                          Append(@, <<"fetch", r.jql.project>>),
                                      !.g = [g1 EXCEPT !.cut_short = TRUE,
                                                       !.dropped_rest =
                                                           @ \/ r.after = "fetch"]],
                                    out.called),
                         out.cache)
             ELSE Resume(t, Written(t, [r EXCEPT !.pc = r.after,
                                      !.presult.issues_embedded = @ + out.ret,
                                      !.synced_ids = @ \cup KeysOf(r.issues_to_embed),
                                      !.issues_to_embed = <<>>,
                                      !.g = g1], out.called),
                         out.cache)
    /\ UNCHANGED <<remote, clock, file, cfg, runs, aux>>

(***************************************************************************)
(* sync.py 487-525: the rest of _sync_project after the page loop.  An     *)
(* exception here leaves _sync_project and is caught by the project loop.  *)
(***************************************************************************)
FinishProject(t, failed, store_fault, comments) ==
    /\ run[t].pc = "rest"
    /\ CanRun(t)
    /\ failed \in FailedChunkSets(run[t].issues_to_embed, cache)
    /\ store_fault \in StoreFaults(~run[t].incremental)
    /\ run[t].issues_to_embed = <<>> => store_fault = "none"
    /\ Fault(FaultCost(failed, store_fault) + (IF comments = "none" THEN 0 ELSE 1))
    /\ LET r == run[t]
           out == embed_and_store(r.issues_to_embed, ~r.incremental, table, cache,
                                  failed, store_fault)
           g1 == NoteEmbed(r.g, r.issues_to_embed, cache, out, failed)
           r1 == [r EXCEPT !.presult.issues_embedded = @ + out.ret,
                           !.synced_ids = @ \cup KeysOf(r.issues_to_embed),
                           !.g = g1]
       IN /\ comments # "none" => ~out.raised /\ comment_sync_runs(r1, out.table)
          /\ table' = out.table
          /\ cache' = out.cache
          /\ writer' = LastWriter(t, out.called)
          /\ IF out.raised
             THEN Resume(t, Written(t, project_raised([r EXCEPT !.g = g1], "project"),
                                    out.called), out.cache)
             ELSE Resume(t, Written(t, post_project(r1, comments), out.called),
                         out.cache)
    /\ UNCHANGED <<remote, clock, file, cfg, runs, aux>>

(***************************************************************************)
(* sync.py 280-339: _detect_and_remove_deleted_issues.  list_fails: the    *)
(* index listing raises (get_all_issue_ids returns []); raised: the        *)
(* batches whose existence query raises; delete_fail_at: the delete batch  *)
(* that raises (0: none).                                                  *)
(***************************************************************************)
\* a deletion pass that never finds a deleted issue
find_deleted_none(batch, existing_keys) == <<>>

\* sync.py 325-327
find_deleted(batch, existing_keys) ==
    LET gone(issue_id) == issue_id \notin existing_keys
    IN SelectSeq(batch, gone)

\* a failed existence query read as "none of the batch exists"
check_batch_failed_as_empty(batch, raises) ==
    find_deleted(batch, IF raises THEN {} ELSE search_keys(batch))

\* sync.py 316-332: one batch; an exception skips the batch
check_batch(batch, raises) ==
    IF raises THEN <<>> ELSE find_deleted(batch, search_keys(batch))

detect_and_remove_deleted_issues(tbl, project_key, list_fails, raised, delete_fail_at) ==
    LET indexed_ids == get_all_issue_ids(tbl, project_key, list_fails)
        indexed_list == indexed_ids         \* list(indexed_ids)
        batches == chunked(indexed_list, DetectBatchSize)
        D[b \in 0..Len(batches)] ==
            IF b = 0 THEN <<>> ELSE D[b - 1] \o check_batch(batches[b], b \in raised)
        deleted_ids == D[Len(batches)]
        del == delete_issues_by_ids(tbl, deleted_ids, delete_fail_at)
    IN [table |-> IF deleted_ids # <<>> THEN del.table ELSE tbl,
        ret |-> Len(deleted_ids),
        deleted_ids |-> Range(deleted_ids),
        log |-> {[batch |-> Range(batches[b]), ok |-> b \notin raised,
                  existing |-> IF b \in raised THEN {} ELSE search_keys(batches[b])] :
                    b \in 1..Len(batches)}]

DetectBatches(tbl, project_key, list_fails) ==
    Len(chunked(get_all_issue_ids(tbl, project_key, list_fails), DetectBatchSize))

\* sync.py 256-265: the deletion pass of incremental_sync, one project per step
DetectDeleted(t, list_fails, raised, delete_fail_at) ==
    /\ run[t].pc = "detect"
    /\ CanRun(t)
    /\ raised \in SUBSET (1..DetectBatches(table, run[t].projects[run[t].di], list_fails))
    /\ delete_fail_at \in 0..1
    /\ Fault((IF list_fails THEN 1 ELSE 0) + (IF raised = {} THEN 0 ELSE 1)
             + (IF delete_fail_at = 0 THEN 0 ELSE 1))
    /\ LET r == run[t]
           project_key == r.projects[r.di]
           d == detect_and_remove_deleted_issues(table, project_key, list_fails,
                                                 raised, delete_fail_at)
       IN /\ table' = d.table
          /\ writer' = LastWriter(t, d.deleted_ids # {})
          /\ Resume(t, Written(t, [r EXCEPT !.result.issues_deleted = @ + d.ret,
                                 !.di = @ + 1,
                                 !.pc = IF r.di + 1 <= Len(r.projects)
                                        THEN "detect" ELSE "finalize",
                                 !.g.exist_log = @ \cup d.log,
                                 !.g.deleted_ids = @ \cup d.deleted_ids,
                                 !.g.removed = @ \cup (IdsOf(table) \ IdsOf(d.table)),
                                 !.g.detect_store_failed =
                                     @ \/ list_fails \/ delete_fail_at # 0],
                                  d.deleted_ids # {}),
                    cache)
    /\ UNCHANGED <<remote, clock, file, cache, cfg, runs, aux>>

(***************************************************************************)
(* sync.py 194-197 / 267-270 and SyncState.save (80-98).  write_text opens *)
(* the file for writing, which truncates it, and then writes the JSON.     *)
(***************************************************************************)
total_after(r) ==
    IF r.incremental
    THEN r.state.total_issues_indexed + r.result.issues_embedded - r.result.issues_deleted
    ELSE r.result.issues_embedded

Finalize(t) ==
    /\ run[t].pc = "finalize"
    /\ CanRun(t)
    /\ LET r == run[t]
       IN Resume(t, [r EXCEPT !.pc = "saving",
                              !.state.last_sync_at = clock,
                              !.state.total_issues_indexed = total_after(r)], cache)
    /\ file' = [kind |-> "partial", data |-> DefaultState]
    /\ UNCHANGED <<remote, clock, table, cache, cfg, runs, faults, aux, writer>>

CompleteSave(t) ==
    /\ run[t].pc = "saving"
    /\ CanRun(t)
    /\ file' = [kind |-> "complete", data |-> run[t].state]
    /\ Resume(t, [run[t] EXCEPT !.pc = "done"], cache)
    /\ UNCHANGED <<remote, clock, table, cache, cfg, runs, faults, aux, writer>>

(***************************************************************************)
(* The remote tracker changes between runs, once the index has been built: *)
(* an issue is edited (its summary, or only its assignee) or deleted.      *)
(***************************************************************************)
Quiet == runs > 0 /\ \A t \in Tasks : run[t].pc \in {"idle", "done"}

RemoteEdit(k, semantic) ==
    /\ Quiet
    /\ Events < MaxEvents
    /\ remote[k].present
    /\ clock' = clock + 1
    /\ remote' = [remote EXCEPT ![k].updated = clock + 1,
                                ![k].summary = IF semantic THEN @ + 1 ELSE @,
                                ![k].assignee = IF semantic THEN @ ELSE 1 - @]
    /\ UNCHANGED <<table, file, cache, cfg, run, running, runs, faults, aux, writer>>

RemoteDelete(k) ==
    /\ Quiet
    /\ Events < MaxEvents
    /\ remote[k].present
    /\ clock' = clock + 1
    /\ remote' = [remote EXCEPT ![k].present = FALSE]
    /\ UNCHANGED <<table, file, cache, cfg, run, running, runs, faults, aux, writer>>

(***************************************************************************)
(* scheduler.py: SyncScheduler.  A loop task is the asyncio task of one    *)
(* call of _run_loop; start(), stop() and the loop tasks share one event   *)
(* loop, so each runs from one await to the next without interruption.     *)
(* The sync a loop invokes is the run of incremental_sync modelled above,  *)
(* seen from its caller: it returns a result after saving the state, or    *)
(* raises, and it may suspend at a provider call on the way.               *)
(***************************************************************************)
MaxLoops == 3        \* loop tasks created in one behaviour
MaxTurns == 2        \* syncs one loop task invokes
MaxCalls == 5        \* calls of start() and stop() in one behaviour

Loops == 1..MaxLoops
StopCallers == {"s1", "s2"}
NoTask == 0          \* _task is None

\* a call of stop() that is not in progress
NoStop == [task |-> NoTask, born |-> 0]

IdleScheduler ==
    [running |-> FALSE, task |-> NoTask, sync_count |-> 0, error_count |-> 0,
     loops |-> [l \in Loops |-> [pc |-> "unborn",        \* unborn, ready, sync, sleep, done
                                 must_cancel |-> FALSE,  \* cancel() was called on the task
                                 turns |-> 0,            \* syncs it has invoked
                                 stale |-> FALSE,        \* a stop() called after its creation
                                                         \* has returned
                                 ended_by |-> "none"]],  \* none, stopped, cancel, raise
     created |-> 0,            \* loop tasks created so far
     stops |-> [c \in StopCallers |-> NoStop],   \* the task a stop() awaits
     calls |-> 0,              \* calls of start() and stop() so far
     saved |-> 0,              \* syncs that returned, their state saved
     raised |-> 0,             \* syncs that raised
     reported |-> 0,           \* errors in the results of the syncs that returned
     aborted |-> FALSE,        \* a sync in flight was ended by a cancellation
     late |-> FALSE]           \* a stale loop task has invoked incremental_sync

\* the task exists and has not finished
Alive(s, l) == s.loops[l].pc \in {"ready", "sync", "sleep"}

SchedFrame ==
    UNCHANGED <<remote, clock, table, file, cache, cfg, run, running, runs,
                faults, writer, call, web, pcache, cop, pipe, callers, sq, hs>>

\* scheduler.py 75-85: start()
start ==
    /\ sch.calls < MaxCalls
    /\ ~sch.running => sch.created < MaxLoops
    /\ sch' = IF sch.running
              THEN [sch EXCEPT !.calls = @ + 1]
              ELSE [sch EXCEPT !.calls = @ + 1,
                               !.running = TRUE,
                               !.created = @ + 1,
                               !.task = sch.created + 1,
                               !.loops[sch.created + 1].pc = "ready"]
    /\ SchedFrame

\* stop() returns: the loop tasks that existed when it was called are stale
stop_returned(s, born) ==
    [s EXCEPT !.loops = [l \in Loops |->
                            IF l <= born THEN [s.loops[l] EXCEPT !.stale = TRUE]
                            ELSE s.loops[l]]]

\* scheduler.py 87-99: stop() up to the end of `await self._task`.  Awaiting
\* a task that has finished does not suspend.
stop(c) ==
    /\ sch.stops[c] = NoStop
    /\ sch.calls < MaxCalls
    /\ LET task == sch.task
           s0 == [sch EXCEPT !.calls = @ + 1]
           s1 == [s0 EXCEPT !.running = FALSE]
           cancel_task == [s1 EXCEPT !.loops[task].must_cancel = TRUE]
       IN sch' = IF ~sch.running THEN stop_returned(s0, sch.created)
                 ELSE IF task = NoTask THEN stop_returned(s1, sch.created)
                 ELSE IF Alive(sch, task)
                 THEN [cancel_task EXCEPT !.stops[c] =
                                              [task |-> task, born |-> sch.created]]
                 ELSE stop_returned([s1 EXCEPT !.task = NoTask], sch.created)
    /\ SchedFrame

\* scheduler.py 95-101: the awaited task has finished, stop() sets
\* self._task = None and returns
stop_resumes(c) ==
    /\ sch.stops[c] # NoStop
    /\ ~Alive(sch, sch.stops[c].task)
    /\ sch' = stop_returned([sch EXCEPT !.task = NoTask, !.stops[c] = NoStop],
                            sch.stops[c].born)
    /\ SchedFrame

\* the result of incremental_sync: it returned with 0 or 2 errors in
\* result.errors, or it raised an Exception
SyncOutcomes == {[kind |-> "ok", errors |-> 0], [kind |-> "ok", errors |-> 2],
                 [kind |-> "raise", errors |-> 0]}

\* a loop that an exception of the sync ends
after_sync_raise_ends(s, l, outcome) ==
    IF outcome.kind = "ok"
    THEN [s EXCEPT !.sync_count = @ + 1,
                   !.error_count = @ + outcome.errors,
                   !.saved = @ + 1,
                   !.reported = @ + outcome.errors,
                   !.loops[l].pc = IF s.running THEN "sleep" ELSE "done",
                   !.loops[l].ended_by = IF s.running THEN @ ELSE "stopped"]
    ELSE [s EXCEPT !.raised = @ + 1,
                   !.loops[l].pc = "done",
                   !.loops[l].ended_by = "raise"]

\* scheduler.py 111-134: _run_loop from the return of incremental_sync to
\* the sleep, or to the end of the loop if _running is no longer set
after_sync(s, l, outcome) ==
    LET s1 == IF outcome.kind = "ok"
              THEN [s EXCEPT !.sync_count = @ + 1,
                             !.error_count = @ + outcome.errors,
                             !.saved = @ + 1,
                             !.reported = @ + outcome.errors]
              ELSE [s EXCEPT !.error_count = @ + 1,
                             !.raised = @ + 1]
    IN [s1 EXCEPT !.loops[l].pc = IF s.running THEN "sleep" ELSE "done",
                  !.loops[l].ended_by = IF s.running THEN @ ELSE "stopped"]

\* scheduler.py 103-110: the task starts, or wakes from its sleep, tests
\* _running and invokes incremental_sync, which suspends at a provider call
\* or ends without suspending.
loop_turn(l, suspends, outcome) ==
    /\ sch.loops[l].pc \in {"ready", "sleep"}
    /\ ~sch.loops[l].must_cancel
    /\ sch.running => sch.loops[l].turns < MaxTurns
    /\ ~sch.running \/ suspends => outcome = [kind |-> "ok", errors |-> 0]
    /\ LET invoked == [sch EXCEPT !.loops[l].turns = @ + 1,
                                  !.late = @ \/ sch.loops[l].stale]
       IN sch' = IF ~sch.running
                 THEN [sch EXCEPT !.loops[l].pc = "done",
                                  !.loops[l].ended_by = "stopped"]
                 ELSE IF suspends THEN [invoked EXCEPT !.loops[l].pc = "sync"]
                 ELSE after_sync(invoked, l, outcome)
    /\ SchedFrame

\* the suspended sync goes on to its end
sync_ends(l, outcome) ==
    /\ sch.loops[l].pc = "sync"
    /\ ~sch.loops[l].must_cancel
    /\ sch' = after_sync(sch, l, outcome)
    /\ SchedFrame

\* task.cancel(): CancelledError is raised in the task at the await it is
\* suspended at.  It is a BaseException: no `except Exception` of
\* incremental_sync or of _run_loop catches it, and no finally clause saves
\* the state; a task that has not started never runs.
cancelled(l) ==
    /\ Alive(sch, l)
    /\ sch.loops[l].must_cancel
    /\ sch' = [sch EXCEPT !.loops[l].pc = "done",
                          !.loops[l].must_cancel = FALSE,
                          !.loops[l].ended_by = "cancel",
                          !.aborted = @ \/ sch.loops[l].pc = "sync"]
    /\ SchedFrame

NoCall == [op |-> "none", records |-> <<>>, before |-> <<>>, fault |-> "none",
           raised |-> FALSE]

(***************************************************************************)
(* Initial state: an empty index, no state file, four issues on the        *)
(* tracker, all updated within the same minute.                            *)
(***************************************************************************)
InitUpdated(k) == IF k = 2 THEN 4 ELSE 2

InitCore(config) ==
    /\ remote = [k \in Keys |-> [present |-> TRUE, summary |-> 10 * k,
                                 assignee |-> 0, updated |-> InitUpdated(k)]]
    /\ clock = InitClock
    /\ table = <<>>
    /\ file = [kind |-> "absent", data |-> DefaultState]
    /\ cache = {}
    /\ cfg = config
    /\ run = [t \in Tasks |-> IdleRun]
    /\ running = "none"
    /\ runs = 0
    /\ faults = 0
    /\ writer = "none"
    /\ call = NoCall
    /\ web = [active |-> "none", failed |-> 0, cancels |-> 0]
    /\ cop = NoCacheOp
    /\ sq = IdleParser(TRUE)
    /\ sch = IdleScheduler

InitWith(config) ==
    /\ InitCore(config)
    /\ hs = NoSearch
    /\ pcache = EmptyCache(MaxEntriesDefault)
    /\ pipe = IdlePipe("openai", TRUE)
    /\ callers = [c \in Callers |-> IdleCaller]

\* VECTOR_SYNC_COMMENTS either way, VECTOR_SYNC_PROJECTS unset
Init == \E config \in [sync_comments : BOOLEAN, sync_projects : {<<>>}] : InitWith(config)

\* the steps of a sync coroutine once it has been started
Engine(t) ==
    \/ \E clear_fails \in BOOLEAN : BeginProject(t, clear_fails)
    \/ \E fault \in {"none", "search", "lookup"} : FetchPage(t, fault)
    \/ \E failed \in SUBSET (1..2), store_fault \in {"none", "lookup", "delete", "add"} :
           EmbedBatch(t, failed, store_fault)
    \/ \E failed \in SUBSET (1..2), store_fault \in {"none", "lookup", "delete", "add"},
          comments \in {"none", "errors", "raise"} :
           FinishProject(t, failed, store_fault, comments)
    \/ \E list_fails \in BOOLEAN, raised \in SUBSET (1..2), delete_fail_at \in 0..1 :
           DetectDeleted(t, list_fails, raised, delete_fail_at)
    \/ Finalize(t)
    \/ CompleteSave(t)

Remote ==
    \/ \E k \in Keys, semantic \in BOOLEAN : RemoteEdit(k, semantic)
    \/ \E k \in Keys : RemoteDelete(k)

\* Sync runs one after the other (the CLI, run_sync).
Next ==
    \/ \E projects \in ProjectArgs, projects_raise \in BOOLEAN :
           full_sync("cli", projects, projects_raise)
    \/ \E projects \in ProjectArgs : incremental_sync("cli", projects)
    \/ Engine("cli")
    \/ Remote

Spec == Init /\ [][Next]_vars

(***************************************************************************)
(* The web server: the scheduler's loop (scheduler.py 103-134) and the     *)
(* manual trigger (server.py 295, scheduler.py 136-152) each await         *)
(* incremental_sync() on an engine of their own, on the same event loop,   *)
(* the same table and the same state file.  Nothing orders the two.        *)
(***************************************************************************)
run_loop == incremental_sync("sched", <<>>)

run_once == incremental_sync("once", <<>>)

\* admin.py 206-225: _run_full_sync passes start_date and end_date, which
\* full_sync(self, projects) does not take: the call raises TypeError before
\* the coroutine exists, the except clause logs it, finally clears the engine.
run_full_sync ==
    /\ running = "none"
    /\ Events < MaxEvents
    /\ web' = [web EXCEPT !.failed = @ + 1, !.active = "none"]
    /\ UNCHANGED <<remote, clock, table, file, cache, cfg, run, running, runs,
                   faults, writer, call, side>>

\* engine.cancel() while the run of task t is in flight, from another
\* coroutine of the event loop.  VectorSyncEngine defines no cancel method and
\* _sync_project reads no cancellation flag (sync.py 391-485): the call
\* raises AttributeError and leaves the run as it is.
cancel(t) ==
    /\ run[t].pc \notin {"idle", "done"}
    /\ running = "none"
    /\ run[t].g.cancel_mark = <<>>
    /\ run' = [run EXCEPT ![t].g.cancel_mark = <<run[t].g.returned>>]
    /\ UNCHANGED <<remote, clock, table, file, cache, cfg, running, runs,
                   faults, writer, aux>>

\* admin.py 245-251: POST /sync/cancel.  _active_sync_engine is set and
\* cleared within one step of _run_full_sync, so the endpoint finds None.
cancel_sync ==
    /\ running = "none"
    /\ Events < MaxEvents
    /\ web' = [web EXCEPT !.cancels = @ + 1]
    /\ IF web.active = "none"
       THEN UNCHANGED run
       ELSE run' = [run EXCEPT ![web.active].g.cancel_mark = <<run[web.active].g.returned>>]
    /\ UNCHANGED <<remote, clock, table, file, cache, cfg, running, runs,
                   faults, writer, call, side>>

\* the server is configured with VECTOR_SYNC_PROJECTS=P and comment sync off
InitConc == InitWith([sync_comments |-> FALSE, sync_projects |-> <<"P">>])

NextConc ==
    \/ run_loop
    \/ run_once
    \/ run_full_sync
    \/ cancel_sync
    \/ cancel("sched")
    \/ cancel("once")
    \/ Engine("sched")
    \/ Engine("once")
    \/ Remote

SpecConc == InitConc /\ [][NextConc]_vars

(***************************************************************************)
(* The scheduler under any interleaving of start() and stop() calls with   *)
(* its loop tasks.                                                         *)
(***************************************************************************)
LoopStep(l) ==
    \/ \E suspends \in BOOLEAN : \E outcome \in SyncOutcomes :
           loop_turn(l, suspends, outcome)
    \/ \E outcome \in SyncOutcomes : sync_ends(l, outcome)
    \/ cancelled(l)

NextSched ==
    \/ start
    \/ \E c \in StopCallers : stop(c)
    \/ \E c \in StopCallers : stop_resumes(c)
    \/ \E l \in Loops : LoopStep(l)

SpecSched == InitConc /\ [][NextSched]_vars

\* The event loop runs every task that is ready: a timer that has expired,
\* a sync that can go on, a task to cancel, a stop() whose task has ended.
SpecSchedFair ==
    /\ SpecSched
    /\ \A l \in Loops : WF_vars(LoopStep(l))
    /\ \A c \in StopCallers : WF_vars(stop_resumes(c))

(***************************************************************************)
(* The process may die at any point of a run.  What is on disk stays.      *)
(***************************************************************************)
Crash(t) ==
    /\ run[t].pc \notin {"idle", "done"}
    /\ Fault(1)
    /\ run' = [run EXCEPT ![t] = IdleRun]
    /\ running' = "none"
    /\ UNCHANGED <<remote, clock, table, file, cache, cfg, runs, writer, aux>>

NextCrash == Next \/ Crash("cli")

SpecCrash == Init /\ [][NextCrash]_vars

(***************************************************************************)
(* The store on its own: any caller, any batch.                            *)
(***************************************************************************)
MaxBatch == 2       \* records in one call
MaxRows == 3        \* rows of the table

StoreRecord(k, summary) ==
    LET issue == [issue_id |-> k, project_key |-> ProjectKeyOf(k),
                  summary |-> summary, assignee |-> 0,
                  content_hash |-> compute_content_hash(summary), updated_at |-> 2]
    IN make_record(issue, EmbeddingOf(prepare_issue_for_embedding(issue)))

StoreRecords == {StoreRecord(k, 10 * k + v) : k \in {3, 4}, v \in 0..1}

Batches == UNION {[1..n -> StoreRecords] : n \in 1..MaxBatch}

StoreCall(op, records, fault, out) ==
    /\ Len(out.table) <= MaxRows
    /\ table' = out.table
    /\ call' = [op |-> op, records |-> records, before |-> table, fault |-> fault,
                raised |-> out.raised]
    /\ UNCHANGED <<remote, clock, file, cache, cfg, run, running, runs, faults,
                   writer, web, side>>

StoreUpsert(records, fault) ==
    StoreCall("upsert", records, fault, upsert_issues(table, records, fault))

StoreBulkInsert(records, fails) ==
    StoreCall("bulk_insert", records, IF fails THEN "add" ELSE "none",
              bulk_insert_issues(table, records, fails))

StoreClear(project_key, fails) ==
    LET out == clear_issues(table, project_key, fails)
    IN StoreCall("clear", <<>>, IF fails THEN "delete" ELSE "none",
                 [table |-> out.table, raised |-> FALSE])

StoreDelete(issue_ids, fail_at) ==
    LET out == delete_issues_by_ids(table, issue_ids, fail_at)
    IN StoreCall("delete", <<>>, IF fail_at = 0 THEN "none" ELSE "delete",
                 [table |-> out.table, raised |-> FALSE])

NextStore ==
    \/ \E records \in Batches, fault \in {"none", "lookup", "delete", "add"} :
           StoreUpsert(records, fault)
    \/ \E records \in Batches, fails \in BOOLEAN : StoreBulkInsert(records, fails)
    \/ \E project_key \in Projects, fails \in BOOLEAN : StoreClear(project_key, fails)
    \/ \E issue_ids \in {<<3>>, <<4>>, <<3, 4>>}, fail_at \in 0..1 :
           StoreDelete(issue_ids, fail_at)

SpecStore == Init /\ [][NextStore]_vars

(***************************************************************************)
(* The persistent cache on its own.  The file outlives the process: at     *)
(* the start it holds the entries 1..n set one after the other by earlier  *)
(* sessions, under any limit max_entries.                                  *)
(***************************************************************************)
MaxCacheOps == 3        \* calls of the cache in one behaviour

CacheSizes == {1, 10}
CacheHashes == 1..12
CacheVectors == {<<"vec", 1>>, <<"vec", 2>>}

RECURSIVE Filled(_, _)
Filled(pc, n) ==
    IF n = 0 THEN pc ELSE cache_set(Filled(pc, n - 1), n, <<"vec", 1>>)

InitCache ==
    /\ InitCore([sync_comments |-> FALSE, sync_projects |-> <<>>])
    /\ hs = NoSearch
    /\ pipe = IdlePipe("openai", TRUE)
    /\ callers = [c \in Callers |-> IdleCaller]
    /\ \E m \in CacheSizes : \E n \in {0, m - 1, m} :
           pcache = Filled(EmptyCache(m), n)

CacheCall(op, key, out) ==
    /\ cop.n < MaxCacheOps
    /\ pcache' = out.cache
    /\ cop' = [op |-> op, key |-> key, ret |-> out.ret, before |-> pcache.rows,
               n |-> cop.n + 1,
               prev |-> [op |-> cop.op, key |-> cop.key, ret |-> cop.ret]]
    /\ UNCHANGED <<remote, clock, table, file, cache, cfg, run, running, runs,
                   faults, writer, call, web, pipe, callers, sq, hs, sch>>

CacheSet(content_hash, embedding) ==
    CacheCall("set", content_hash,
              [cache |-> cache_set(pcache, content_hash, embedding), ret |-> embedding])

CacheGet(content_hash) == CacheCall("get", content_hash, cache_get(pcache, content_hash))

CacheClear == CacheCall("clear", 0, [cache |-> cache_clear(pcache), ret |-> NoVector])

NextCache ==
    \/ \E h \in CacheHashes, v \in CacheVectors : CacheSet(h, v)
    \/ \E h \in CacheHashes : CacheGet(h)
    \/ CacheClear

SpecCache == InitCache /\ [][NextCache]_vars

(***************************************************************************)
(* The embedding pipeline on its own: callers of embed and embed_batch on  *)
(* one pipeline.  A coroutine runs from one await to the next in one step. *)
(***************************************************************************)
MaxPipeCalls == 2       \* calls of embed / embed_batch in one behaviour
MaxTexts == 3           \* texts in one call of embed_batch

PipeTexts == 1..2
PipeInputs == UNION {[1..n -> PipeTexts] : n \in 0..MaxTexts}

\* embed_batch 316-325: the cache lookup of every text, in order.
\* st = [memory, pcache, results, raised]; read_fail_at: the position whose
\* persistent lookup raises (0: none)
RECURSIVE lookup_all(_, _, _, _, _)
lookup_all(texts, i, st, cache_embeddings, read_fail_at) ==
    IF i > Len(texts) \/ st.raised THEN st
    ELSE LET got == get_cached(st.memory, st.pcache, cache_embeddings,
                               get_cache_key(texts[i]), i = read_fail_at)
         IN lookup_all(texts, i + 1,
                       [memory |-> got.memory, pcache |-> got.pcache,
                        results |-> Append(st.results, got.ret),
                        raised |-> got.raised],
                       cache_embeddings, read_fail_at)

\* embed_batch 351-356: results[idx] = embedding and _set_cached, for the
\* items of a chunk in order.  write_fail_at: the item whose persistent
\* write raises (0: none); the exception leaves the loop.
RECURSIVE store_results(_, _, _, _, _, _)
store_results(texts, chunk, j, st, cache_embeddings, write_fail_at) ==
    IF j > Len(chunk) \/ st.raised THEN st
    ELSE LET idx == chunk[j]
             embedding == EmbeddingOf(texts[idx])
             sc == set_cached(st.memory, st.pcache, cache_embeddings,
                              get_cache_key(texts[idx]), embedding, j = write_fail_at)
         IN store_results(texts, chunk, j + 1,
                          [memory |-> sc.memory, pcache |-> sc.pcache,
                           results |-> [st.results EXCEPT ![idx] = embedding],
                           raised |-> sc.raised],
                          cache_embeddings, write_fail_at)

\* [r for r in results if r is not None]
successful(results) ==
    LET some(r) == r # NoVector
    IN SelectSeq(results, some)

Snapshot ==
    DOMAIN pipe.memory
        \cup (IF pipe.cache_embeddings THEN HashesOf(pcache.rows) ELSE {})

PipeFrame ==
    UNCHANGED <<remote, clock, table, file, cache, cfg, run, running, runs,
                faults, writer, call, web, cop, sq, hs, sch>>

\* embed(text) 268-283 and embed_batch(texts) 297-331, up to the first
\* provider call
StartCall(c, mode, texts, read_fail_at) ==
    /\ callers[c].pc \in {"idle", "done"}
    /\ pipe.ncalls < MaxPipeCalls
    /\ LET look == lookup_all(texts, 1,
                              [memory |-> pipe.memory, pcache |-> pcache,
                               results |-> <<>>, raised |-> FALSE],
                              pipe.cache_embeddings, read_fail_at)
           idx == [i \in 1..Len(look.results) |-> i]
           miss(i) == look.results[i] = NoVector
           uncached_indices == SelectSeq(idx, miss)
           chunks == chunked(uncached_indices, ConfigBatchSize)
           c0 == [IdleCaller EXCEPT !.mode = mode, !.texts = texts,
                                    !.t.snap = Snapshot]
       IN /\ read_fail_at # 0 => look.raised
          /\ pipe' = [pipe EXCEPT !.memory = look.memory, !.ncalls = @ + 1]
          /\ pcache' = look.pcache
          /\ callers' = [callers EXCEPT ![c] =
                IF look.raised
                THEN [c0 EXCEPT !.pc = "done", !.raised = TRUE,
                                !.t.cache_raised = TRUE]
                ELSE IF chunks = <<>>
                THEN [c0 EXCEPT !.pc = "done", !.results = look.results,
                                !.ret = successful(look.results)]
                ELSE [c0 EXCEPT !.pc = "chunk", !.results = look.results,
                                !.chunks = chunks]]
    /\ PipeFrame

embed_batch_call(c, texts, read_fail_at) == StartCall(c, "batch", texts, read_fail_at)

embed_call(c, text, read_fails) ==
    StartCall(c, "single", <<text>>, IF read_fails THEN 1 ELSE 0)

\* _embed_openai 409-426: inside the semaphore, the request is sent;
\* embed_batch 345-348 / _embed_local 452-453: run_in_executor
provider_start(c) ==
    /\ callers[c].pc = "chunk"
    /\ pipe.provider = "openai" => pipe.permits < MaxConcurrent
    /\ pipe' = [pipe EXCEPT !.permits = IF pipe.provider = "openai" THEN @ + 1 ELSE @,
                            !.inflight = @ + 1]
    /\ callers' = [callers EXCEPT
          ![c].pc = "call",
          ![c].attempt = @ + 1,
          ![c].t.sent = IF callers[c].attempt = 0
                        THEN Append(@, callers[c].chunks[callers[c].ci]) ELSE @]
    /\ UNCHANGED pcache
    /\ PipeFrame

\* the caller after its current chunk: the next chunk, or the return
next_chunk(cl) ==
    IF cl.ci + 1 <= Len(cl.chunks)
    THEN [cl EXCEPT !.pc = "chunk", !.ci = @ + 1, !.attempt = 0]
    ELSE [cl EXCEPT !.pc = "done", !.ret = successful(cl.results)]

\* what a provider call can end in; APITimeoutError is the exception the
\* OpenAI client raises on a timeout, which is not the builtin TimeoutError
Outcomes == {"ok", "RateLimitError", "APITimeoutError"}
Retryable == {"RateLimitError", "TimeoutError", "ConnectionError"}

\* a retry policy that retries whatever the error
retries_any(provider, outcome, attempt) ==
    provider = "openai" /\ attempt < MaxAttempts

\* tenacity: retry_if_exception_type((RateLimitError, TimeoutError,
\* ConnectionError)), stop_after_attempt(5); the local provider has no retry
retries(provider, outcome, attempt) ==
    provider = "openai" /\ outcome \in Retryable /\ attempt < MaxAttempts

\* the provider call of the current chunk ends: the semaphore is released,
\* then tenacity decides, then embed / embed_batch goes on to its next await
provider_end(c, outcome, write_fail_at) ==
    /\ callers[c].pc = "call"
    /\ LET cl == callers[c]
           chunk == cl.chunks[cl.ci]
           st == store_results(cl.texts, chunk, 1,
                               [memory |-> pipe.memory, pcache |-> pcache,
                                results |-> cl.results, raised |-> FALSE],
                               pipe.cache_embeddings, write_fail_at)
           try == [attempts |-> cl.attempt, last |-> outcome]
           released == [pipe EXCEPT !.permits = IF pipe.provider = "openai" THEN @ - 1 ELSE @,
                                    !.inflight = @ - 1]
           ended == [cl EXCEPT !.t.last_try = try]
           stored == [ended EXCEPT !.results = st.results,
                                   !.t.embedded = @ \cup Range(chunk),
                                   !.t.cache_raised = @ \/ st.raised]
           failed == [ended EXCEPT !.t.given_up = @ \cup {cl.ci}]
       IN /\ write_fail_at \in 0..Len(chunk)
          /\ write_fail_at # 0 => outcome = "ok" /\ pipe.cache_embeddings
          /\ IF outcome = "ok"
             THEN /\ pipe' = [released EXCEPT !.memory = st.memory]
                  /\ pcache' = st.pcache
                  /\ callers' = [callers EXCEPT ![c] =
                        IF ~st.raised THEN next_chunk(stored)
                        ELSE IF cl.mode = "single"
                        THEN [stored EXCEPT !.pc = "done", !.raised = TRUE]
                        ELSE next_chunk([stored EXCEPT !.t.given_up = @ \cup {cl.ci}])]
             ELSE /\ pipe' = released
                  /\ UNCHANGED pcache
                  /\ callers' = [callers EXCEPT ![c] =
                        IF retries(pipe.provider, outcome, cl.attempt)
                        THEN [cl EXCEPT !.pc = "chunk", !.t.retried = @ \cup {outcome}]
                        ELSE IF cl.mode = "single"
                        THEN [failed EXCEPT !.pc = "done", !.raised = TRUE]
                        ELSE next_chunk(failed)]
    /\ PipeFrame

InitPipe ==
    /\ InitCore([sync_comments |-> FALSE, sync_projects |-> <<>>])
    /\ hs = NoSearch
    /\ \E provider \in {"openai", "local"} : \E cache_embeddings \in BOOLEAN :
         pipe = IdlePipe(provider, cache_embeddings)
    /\ \E stored \in SUBSET {1} :
         pcache = IF stored = {} THEN EmptyCache(MaxEntriesDefault)
                  ELSE cache_set(EmptyCache(MaxEntriesDefault),
                                 get_cache_key(1), EmbeddingOf(1))
    /\ callers = [c \in Callers |-> IdleCaller]

\* one caller, one call after the other
NextPipe ==
    \/ \E texts \in PipeInputs : \E at \in 0..MaxTexts :
         embed_batch_call("a", texts, at)
    \/ \E text \in PipeTexts : \E read_fails \in BOOLEAN :
         embed_call("a", text, read_fails)
    \/ provider_start("a")
    \/ \E outcome \in Outcomes : \E at \in 0..ConfigBatchSize :
         provider_end("a", outcome, at)

SpecPipe == InitPipe /\ [][NextPipe]_vars

\* concurrent callers on one pipeline, each of them with at most one text
ConcInputs == {texts \in PipeInputs : Len(texts) <= 1}

NextPipeConc ==
    \/ \E c \in Callers : \E texts \in ConcInputs : \E at \in 0..1 :
         embed_batch_call(c, texts, at)
    \/ \E c \in Callers : \E text \in PipeTexts : \E read_fails \in BOOLEAN :
         embed_call(c, text, read_fails)
    \/ \E c \in Callers : provider_start(c)
    \/ \E c \in Callers : \E outcome \in Outcomes : \E at \in 0..1 :
         provider_end(c, outcome, at)

SpecPipeConc == InitPipe /\ [][NextPipeConc]_vars

(***************************************************************************)
(* The self-query parser on its own: parse calls as time passes.           *)
(***************************************************************************)
MaxParses == 3          \* calls of parse in one behaviour
MaxNow == 4             \* the clock stops here

Queries == {Query("bugs", "plain"), Query("bugs", "upper"),
            Query("stories", "plain"), Query("", "padded")}

\* what the chat completion can answer: JSON with filters, text that is not
\* JSON, or an exception
LlmAnswers == {NoFilters, RelativeFilter("last 1 days"),
               RelativeFilter("someday"), AbsoluteFilter(0)}
LlmOutcomes ==
    {[kind |-> "json", filters |-> f] : f \in LlmAnswers}
        \cup {[kind |-> k, filters |-> NoFilters] : k \in {"bad_json", "error"}}

QueryFrame ==
    UNCHANGED <<remote, clock, table, file, cache, cfg, run, running, runs,
                faults, writer, call, web, pcache, cop, pipe, callers, hs, sch>>

\* SelfQueryParser.parse
parse(query, llm) ==
    /\ sq.calls < MaxParses
    /\ LET cache_key == query_cache_key(query)
           got == IF sq.use_cache THEN query_get_cached(sq.cache, cache_key, sq.now)
                  ELSE [cache |-> sq.cache, hit |-> FALSE]
           cached == sq.cache[cache_key].parsed
           llm_parsed == IF llm.kind = "bad_json"
                         THEN ParsedQuery(query.words, NoFilters,
                                          "Failed to parse LLM response", 3, query)
                         ELSE ParsedQuery("words", llm.filters, "parsed", 9, query)
           parsed == [llm_parsed EXCEPT
                        !.filters = resolve_relative_dates(@, sq.now)]
           done(qc, from_cache, llm_filters, out) ==
               sq' = [sq EXCEPT !.cache = qc, !.calls = @ + 1,
                                !.ret = [query |-> query, at |-> sq.now,
                                         from_cache |-> from_cache,
                                         llm_filters |-> llm_filters,
                                         out |-> out]]
       IN IF IsBlank(query)
          THEN done(sq.cache, FALSE, NoFilters,
                    ParsedQuery("", NoFilters, "Empty query", 0, query))
          ELSE IF got.hit
          THEN done(got.cache, TRUE, sq.cache[cache_key].llm_filters,
                    [cached EXCEPT !.raw_query = query])
          ELSE IF llm.kind = "error"
          THEN done(got.cache, FALSE, NoFilters,
                    ParsedQuery(query.words, NoFilters, "Fallback", 5, query))
          ELSE done(IF sq.use_cache
                    THEN query_set_cached(got.cache, cache_key, parsed, llm.filters, sq.now)
                    ELSE got.cache,
                    FALSE, llm.filters, parsed)
    /\ QueryFrame

\* time passes
Tick ==
    /\ sq.now < MaxNow
    /\ sq' = [sq EXCEPT !.now = @ + 1]
    /\ QueryFrame

InitQuery ==
    /\ InitCore([sync_comments |-> FALSE, sync_projects |-> <<>>])
    /\ hs = NoSearch
    /\ pcache = EmptyCache(MaxEntriesDefault)
    /\ pipe = IdlePipe("openai", TRUE)
    /\ callers = [c \in Callers |-> IdleCaller]

NextQuery ==
    \/ \E query \in Queries : \E llm \in LlmOutcomes : parse(query, llm)
    \/ Tick

SpecQuery == InitQuery /\ [][NextQuery]_vars

(***************************************************************************)
(* The searches of the store on their own: one table content and one set   *)
(* of arguments, given to hybrid_search, search_issues and the text search.*)
(***************************************************************************)
MaxHits == 4            \* rows LanceDB has for the query

HitRows == [issue_id : 1..2, distance : {40, 130}, text_score : {0, LikeScore}]

\* LanceDB returns the rows nearest first
NearestFirst(hits) ==
    \A i \in 1..(Len(hits) - 1) : hits[i].distance <= hits[i + 1].distance

HitLists ==
    {hits \in UNION {[1..n -> HitRows] : n \in 0..MaxHits} : NearestFirst(hits)}

SearchInputs ==
    {[NoSearch EXCEPT !.hits = hits, !.limit = limit, !.offset = offset,
                      !.fts_weight = fts_weight, !.min_score = min_score] :
        hits \in HitLists, limit \in 1..2, offset \in 0..1,
        fts_weight \in {0, One}, min_score \in {0, 40}}

SearchFrame ==
    UNCHANGED <<remote, clock, table, file, cache, cfg, run, running, runs,
                faults, writer, call, web, pcache, cop, pipe, callers, sq, sch>>

HybridSearch ==
    /\ hs.pc \in {"idle", "vector"}
    /\ hs' = [hs EXCEPT !.pc = IF hs.pc = "idle" THEN "hybrid" ELSE "both",
                        !.hybrid = hybrid_search(hs.hits, hs.limit, hs.offset,
                                                 hs.fts_weight, hs.min_score),
                        !.lexical = full_text_search(hs.hits,
                                                     (hs.limit + hs.offset) * 3)]
    /\ SearchFrame

VectorSearch ==
    /\ hs.pc \in {"idle", "hybrid"}
    /\ hs' = [hs EXCEPT !.pc = IF hs.pc = "idle" THEN "vector" ELSE "both",
                        !.vector = vector_search_issues(hs.hits, hs.limit,
                                                        hs.offset, hs.min_score)]
    /\ SearchFrame

InitSearch ==
    /\ InitCore([sync_comments |-> FALSE, sync_projects |-> <<>>])
    /\ pcache = EmptyCache(MaxEntriesDefault)
    /\ pipe = IdlePipe("openai", TRUE)
    /\ callers = [c \in Callers |-> IdleCaller]
    /\ hs \in SearchInputs

NextSearch == HybridSearch \/ VectorSearch

SpecSearch == InitSearch /\ [][NextSearch]_vars

(***************************************************************************)
(* Properties of the sync engine.                                          *)
(***************************************************************************)
Done(t) == run[t].pc = "done"

Persisted == SyncState_load(file)

\* C1: when a run has ended, the persisted last_issue_updated is not below
\* the value the run loaded, and after a run without errors it is at least
\* the updated_at of every issue the run embedded and stored.
C1_WatermarkMonotone ==
    \A t \in Tasks :
        Done(t) /\ file.kind = "complete" =>
            /\ Persisted.last_issue_updated >= run[t].g.prior
            /\ run[t].result.errors = <<>> =>
                   \A s \in run[t].g.stored : Persisted.last_issue_updated >= s[2]

\* a second run without errors stored an issue and moved the watermark up
C1_Witness ==
    \E t \in Tasks :
        /\ Done(t) /\ file.kind = "complete"
        /\ run[t].result.errors = <<>>
        /\ run[t].g.stored # {}
        /\ run[t].g.prior > DatetimeMin
        /\ Persisted.last_issue_updated > run[t].g.prior

Stale(t) ==
    {k \in IdsOf(run[t].g.table0) :
        /\ ProjectKeyOf(k) \in Range(run[t].projects)
        /\ k \in run[t].g.gone}

QueriesSucceeded(t) == \A e \in run[t].g.exist_log : e.ok

Removed(t, k) ==
    /\ k \notin IdsOf(table)
    /\ k \in run[t].g.deleted_ids
    /\ run[t].result.issues_deleted >= Cardinality(run[t].g.deleted_ids)

Occurrences(s, x) == Cardinality({i \in 1..Len(s) : s[i] = x})

RowsOf(tbl, k) ==
    LET hit(r) == r.issue_id = k
    IN SelectSeq(tbl, hit)

\* C4, for runs that end without an error in behaviours without any failure:
\* an issue an incremental run finds with an unchanged content hash is
\* counted once in issues_skipped, is not sent to the embedding pipeline and
\* keeps its row.
C4_UnchangedSkippedOnce ==
    \A t \in Tasks :
        Done(t) /\ run[t].incremental /\ run[t].result.errors = <<>> /\ faults = 0 =>
            /\ run[t].result.issues_skipped = Cardinality(Range(run[t].g.hash_skips))
            /\ \A k \in Range(run[t].g.hash_skips) :
                   /\ Occurrences(run[t].g.hash_skips, k) = 1
                   /\ k \notin run[t].g.sent
                   /\ RowsOf(table, k) = RowsOf(run[t].g.table0, k)

\* C5, for full syncs whose project queries all succeeded, with comment sync
\* off: after a full sync of a project every row of that project is an issue
\* the project query returned in this run.
C5_FullSyncRebuilds ==
    \A t \in Tasks :
        Done(t) /\ ~run[t].incremental /\ ~run[t].g.cut_short /\ ~cfg.sync_comments =>
            \A i \in 1..Len(table) :
                table[i].project_key \in Range(run[t].projects) =>
                    table[i].issue_id \in run[t].g.returned

\* C9, with comment sync off: a batch whose embedding or store call fails is
\* recorded in the result's errors, none of its issues is stored by that
\* call, and the batches after it are still processed.
C9_FailedBatchRecorded ==
    \A t \in Tasks :
        Done(t) /\ ~cfg.sync_comments =>
            /\ run[t].g.embed_failed \/ run[t].g.store_failed =>
                   run[t].result.errors # <<>>
            /\ ~run[t].g.failed_stored
            /\ ~run[t].g.dropped_rest

RECURSIVE SumOver(_, _)
SumOver(outcomes, field) ==
    IF outcomes = <<>> THEN 0
    ELSE (IF outcomes[1].raised THEN 0 ELSE outcomes[1].result[field])
         + SumOver(Tail(outcomes), field)

\* C10: a run attempts every project of its list in order, also after a
\* project raised; a project that raised adds an error naming it, and the
\* counters of the run are the sums over the projects that returned.
C10_ProjectsIsolated ==
    \A t \in Tasks :
        run[t].pc \in {"detect", "finalize", "saving", "done"} =>
            LET o == run[t].g.outcomes
            IN /\ [i \in 1..Len(o) |-> o[i].project] = run[t].projects
               /\ \A i \in 1..Len(o) :
                      o[i].raised =>
                          \E e \in Range(run[t].result.errors) : e[2] = o[i].project
               /\ run[t].result.issues_processed = SumOver(o, "issues_processed")
               /\ run[t].result.issues_embedded = SumOver(o, "issues_embedded")
               /\ run[t].result.issues_skipped = SumOver(o, "issues_skipped")

\* the first project raised and the second one was synced and counted
C10_Witness ==
    \E t \in Tasks :
        /\ Done(t)
        /\ Len(run[t].g.outcomes) = 2
        /\ run[t].g.outcomes[1].raised
        /\ ~run[t].g.outcomes[2].raised
        /\ run[t].g.outcomes[2].result.issues_embedded > 0

RECURSIVE SumAll(_, _)
SumAll(outcomes, field) ==
    IF outcomes = <<>> THEN 0
    ELSE outcomes[1].result[field] + SumAll(Tail(outcomes), field)

\* C11, in behaviours without any injected failure: when the comment sync of
\* a project met an error after its issues were embedded, the error is in
\* the result's errors, the issue counters of every project, that one
\* included, are added to the result, and every project of the list was run.
C11_CommentErrorKeepsCounters ==
    \A t \in Tasks :
        run[t].pc \in {"detect", "finalize", "saving", "done"} /\ faults = 0 =>
            LET o == run[t].g.outcomes
            IN /\ Len(o) = Len(run[t].projects)
               /\ \A i \in 1..Len(o) :
                      o[i].project \in run[t].g.comment_failed =>
                          \E e \in Range(run[t].result.errors) : e[2] = o[i].project
               /\ run[t].result.issues_processed = SumAll(o, "issues_processed")
               /\ run[t].result.issues_embedded = SumAll(o, "issues_embedded")

LastOf(records, k) ==
    LET i == CHOOSE i \in 1..Len(records) :
                 /\ records[i].issue_id = k
                 /\ \A j \in (i + 1)..Len(records) : records[j].issue_id # k
    IN records[i]

\* C6, when no store call fails: after upsert_issues(batch) returns, every
\* key of the batch has exactly one row, holding the batch's last record for
\* that key, and the rows of the other keys are unchanged.
C6_UpsertOneRowPerKey ==
    call.op = "upsert" /\ call.fault = "none" =>
        /\ \A k \in KeysOf(call.records) :
               RowsOf(table, k) = <<LastOf(call.records, k)>>
        /\ \A k \in Keys \ KeysOf(call.records) :
               RowsOf(table, k) = RowsOf(call.before, k)

\* the input positions of a call whose text was in a cache when the call
\* started, and those the provider returned a vector for
FoundInCache(cl) ==
    {i \in 1..Len(cl.texts) : get_cache_key(cl.texts[i]) \in cl.t.snap}

Surviving(cl) == FoundInCache(cl) \cup cl.t.embedded

VectorsAt(cl, positions) ==
    LET idx == [i \in 1..Len(cl.texts) |-> i]
        in_positions(i) == i \in positions
        kept == SelectSeq(idx, in_positions)
    IN [j \in 1..Len(kept) |-> EmbeddingOf(cl.texts[kept[j]])]

\* C12: a finished embed_batch has returned (not raised) the vectors of
\* exactly the input texts found in a cache or embedded by the provider, in
\* input order; an empty input returns the empty list with no provider call.
C12_BatchReturnsSurvivors ==
    \A c \in Callers :
        callers[c].pc = "done" /\ callers[c].mode = "batch" =>
            /\ ~callers[c].raised
            /\ callers[c].ret = VectorsAt(callers[c], Surviving(callers[c]))
            /\ Len(callers[c].ret) <= Len(callers[c].texts)
            /\ callers[c].texts = <<>> =>
                   callers[c].ret = <<>> /\ callers[c].t.sent = <<>>

\* the call ended in its cache lookup, by the exception of a cache read
LookupRaised(cl) == cl.raised /\ cl.chunks = <<>>

Flatten(chunks) ==
    LET RECURSIVE flat(_)
        flat(i) == IF i > Len(chunks) THEN <<>> ELSE chunks[i] \o flat(i + 1)
    IN flat(1)

IsPrefix(s, t) == Len(s) <= Len(t) /\ \A i \in 1..Len(s) : s[i] = t[i]

\* C13: the provider is called only for input positions whose text was in
\* neither cache when the call looked it up, in chunks of at most batch_size
\* that hold every such position exactly once, each chunk sent at most once
\* and all of them by the time the call returns; a cached position is in no
\* provider call.
C13_ProviderOnlyForUncached ==
    \A c \in Callers :
        LET cl == callers[c]
            uncached == (1..Len(cl.texts)) \ FoundInCache(cl)
            idx == [i \in 1..Len(cl.texts) |-> i]
            miss(i) == i \in uncached
        IN cl.pc # "idle" /\ ~LookupRaised(cl) =>
              /\ Flatten(cl.chunks) = SelectSeq(idx, miss)
              /\ \A k \in 1..Len(cl.chunks) :
                     Len(cl.chunks[k]) \in 1..ConfigBatchSize
              /\ IsPrefix(cl.t.sent, cl.chunks)
              /\ Len(cl.t.sent) = IF cl.pc = "call" THEN cl.ci
                                  ELSE IF cl.pc = "chunk"
                                  THEN (IF cl.attempt = 0 THEN cl.ci - 1 ELSE cl.ci)
                                  ELSE Len(cl.chunks)
              /\ cl.t.embedded \subseteq uncached

C13_Witness ==
    /\ callers["a"].pc = "done"
    /\ ~callers["a"].raised
    /\ Len(callers["a"].texts) = 3
    /\ FoundInCache(callers["a"]) # {}
    /\ Len(callers["a"].t.sent) = 1
    /\ Len(callers["a"].t.sent[1]) = 2

\* C14: at every instant at most max_concurrent_embeddings provider calls
\* are in flight, whatever the provider and the number of callers.
C14_InflightBounded == pipe.inflight <= MaxConcurrent

\* an upper bound of the provider steps a call has left
Measure(cl) ==
    IF cl.pc \in {"idle", "done"} THEN 0
    ELSE (Len(cl.chunks) - cl.ci) * 2 * MaxAttempts
         + 2 * (MaxAttempts - cl.attempt)
         + (IF cl.pc = "call" THEN 2 ELSE 1)

RetryInvariant ==
    \A c \in Callers :
        LET cl == callers[c]
        IN /\ cl.attempt <= MaxAttempts
           /\ cl.t.last_try.attempts <= MaxAttempts
           /\ cl.t.retried \subseteq Retryable
           /\ cl.t.last_try.last \notin Retryable \cup {"ok", "none"}
                 /\ cl.t.retried = {} => cl.t.last_try.attempts = 1
           /\ cl.t.last_try.last \in Retryable =>
                  cl.t.last_try.attempts = MaxAttempts \/ pipe.provider = "local"

ChunkEnds ==
    \A c \in Callers :
        callers[c].pc \in {"chunk", "call"} /\ callers'[c] # callers[c] =>
            /\ Measure(callers'[c]) < Measure(callers[c])
            /\ callers'[c].t.given_up # callers[c].t.given_up =>
                   callers'[c].pc = "done" \/ callers'[c].ci = callers[c].ci + 1

C18_CacheFailureIsMiss ==
    \A c \in Callers :
        callers[c].pc = "done" =>
            /\ callers[c].t.cache_raised => ~callers[c].raised
            /\ ~callers[c].raised =>
                   callers[c].ret = VectorsAt(callers[c], Surviving(callers[c]))

\* C19: a ParsedQuery answered from the query cache carries its relative
\* date filters resolved against the time of this call of parse.
C19_CachedDatesAreCurrent ==
    sq.ret.from_cache =>
        sq.ret.out.filters = resolve_relative_dates(sq.ret.llm_filters, sq.ret.at)

KeysAndScores(results, unit) ==
    [i \in 1..Len(results) |-> <<results[i].issue_id, results[i].score * unit>>]

\* the text results alone, as hybrid_search pages them
LexicalPage ==
    LET passes(r) == r.score >= hs.min_score * One
        alone == fuse_results(<<>>, hs.lexical, One)
    IN Page(sort_by_score(SelectSeq(alone, passes)), hs.offset, hs.limit)

HybridEqualsVector ==
    hs.pc = "both" /\ hs.fts_weight = 0 =>
        KeysAndScores(hs.hybrid.results, 1) = KeysAndScores(hs.vector.results, One)

HybridEqualsLexical ==
    hs.pc = "both" /\ hs.fts_weight = One =>
        KeysAndScores(hs.hybrid.results, 1) = KeysAndScores(LexicalPage, 1)

\* C20: with fts_weight 0, hybrid_search returns the issue keys, order and
\* scores of search_issues for the same arguments; with fts_weight 1 it
\* returns the results of the text search and their scores.
C20_HybridDegenerates == HybridEqualsVector /\ HybridEqualsLexical

\* the largest updated_at of a row of the index, DatetimeMin if it is empty
MaxIndexed(tbl) ==
    IF tbl = <<>> THEN DatetimeMin
    ELSE CHOOSE m \in {tbl[i].updated_at : i \in 1..Len(tbl)} :
             \A i \in 1..Len(tbl) : tbl[i].updated_at <= m

\* the persisted watermark is not ahead of the index
WatermarkNotAhead ==
    \A t \in Tasks :
        Done(t) /\ file.kind = "complete" =>
            Persisted.last_issue_updated <= MaxIndexed(table)

\* C22: when a sync has completed, the persisted last_issue_updated equals
\* the largest updated_at of the issues in the index; it is not ahead of the
\* index on account of an issue that was fetched but not embedded or stored.
C22_WatermarkIsIndexMax ==
    \A t \in Tasks :
        Done(t) /\ file.kind = "complete" =>
            Persisted.last_issue_updated = MaxIndexed(table)

\* the issues of a project the tracker held when the run started
MatchedAtStart(g, project_key) ==
    {k \in Keys \ g.gone : ProjectKeyOf(k) = project_key}

\* a project's page loop ended on the except clause of sync.py 481-485
LoopRaised(outcome) ==
    \E i \in 1..Len(outcome.result.errors) : outcome.result.errors[i][1] = "fetch"

ProcessedOnce(g, outcome) ==
    /\ MatchedAtStart(g, outcome.project) \subseteq g.returned
    /\ outcome.result.issues_processed =
           Cardinality(MatchedAtStart(g, outcome.project))

ChangedSince(g, project_key) ==
    {k \in Keys : /\ remote[k].present
                  /\ ProjectKeyOf(k) = project_key
                  /\ remote[k].updated >= g.prior}

\* C24: an incremental sync whose page loop met no exception has fetched and
\* processed every issue of the project whose updated_at is at or after the
\* watermark, also when they span more than one page.  (The tracker does not
\* change while the run is in flight.)
C24_IncrementalPagesAll ==
    \A t \in Tasks :
        run[t].incremental /\ run[t].pc \notin {"idle", "done"}
                           /\ run[t].g.prior > DatetimeMin =>
            \A i \in 1..Len(run[t].g.outcomes) :
                ~LoopRaised(run[t].g.outcomes[i]) =>
                    ChangedSince(run[t].g, run[t].g.outcomes[i].project)
                        \subseteq run[t].g.returned

\* C27: between runs executed one at a time, the issues table holds at most
\* one row per issue key, store failures that are swallowed included.
C27_OneRowPerKey ==
    (\A t \in Tasks : run[t].pc \in {"idle", "done"}) =>
        \A k \in Keys : Len(RowsOf(table, k)) <= 1

\* C28: every row of the issues table carries the vector of the embedding
\* text of its own issue, also after a batch in which a provider chunk failed.
C28_RowCarriesOwnVector ==
    \A i \in 1..Len(table) :
        table[i].vector = EmbeddingOf(prepare_issue_for_embedding(table[i]))

\* the index holds the issue with the content hash of its present text
StoredCurrent(k) ==
    \E i \in 1..Len(table) :
        /\ table[i].issue_id = k
        /\ table[i].content_hash = compute_content_hash(remote[k].summary)

\* the query of the next incremental sync selects the issue
SelectedNext(k) ==
    remote[k].updated >= build_jql(ProjectKeyOf(k), TRUE, Persisted).floor

\* C29: when an incremental sync has ended, every issue it fetched and found
\* changed is in the index with its new content hash or is selected again by
\* the query of the next incremental sync.
C29_NoChangedIssueLost ==
    \A t \in Tasks :
        Done(t) /\ run[t].incremental /\ file.kind = "complete" =>
            \A k \in run[t].g.sent :
                remote[k].present => StoredCurrent(k) \/ SelectedNext(k)

\* C26: once cancel() has been called on the engine of a run in flight,
\* the run ends the batch it is in and unwinds: it fetches and processes no
\* further issue.
C26_CancelUnwinds ==
    \A t \in Tasks :
        run[t].g.cancel_mark # <<>> =>
            run[t].g.returned = run[t].g.cancel_mark[1]

\* C21: a sync that is in flight when stop() is called runs to its end, its
\* state saved, before the scheduler exits: no sync in flight is cut off.
C21_InflightSyncCompletes == ~sch.aborted

\* the loop tasks that can still invoke a sync: alive, no cancellation pending
Looping == {l \in Loops : Alive(sch, l) /\ ~sch.loops[l].must_cancel}

AtMostOneLoop == Cardinality(Looping) <= 1

\* no loop task that existed when a stop() was called invokes
\* incremental_sync after that stop() has returned
NoSyncAfterStop == ~sch.late

\* C30: under any interleaving of start() and stop(), at most one loop task
\* is alive, and after stop() has returned no earlier loop task invokes
\* incremental_sync again.
C30_SingleLoop == AtMostOneLoop /\ NoSyncAfterStop

\* the counters after any number of syncs: sync_count is the number of syncs
\* that returned, error_count the errors they reported plus one per sync
\* that raised
CountersRight ==
    /\ sch.sync_count = sch.saved
    /\ sch.error_count = sch.reported + sch.raised

\* no loop task has ended on an exception of its sync
RaiseKeepsLoop == \A l \in Loops : sch.loops[l].ended_by # "raise"

\* a loop task that sleeps invokes incremental_sync again, unless the
\* scheduler is stopped
InvokedAgain ==
    \A l \in Loops : \A n \in 0..(MaxTurns - 1) :
        (sch.loops[l].pc = "sleep" /\ sch.loops[l].turns = n)
            ~> (sch.loops[l].turns > n \/ ~sch.running \/ ~Alive(sch, l))

\* C25: while the scheduler is running its loop invokes incremental_sync
\* again after each interval; a sync that raises adds one to error_count and
\* does not end the loop; a sync that returns adds exactly one to sync_count.
C25_LoopKeepsRunning == [](CountersRight /\ RaiseKeepsLoop) /\ InvokedAgain

\* a loop task has slept after a sync that raised and has invoked the next
C25_Witness ==
    \E l \in Loops :
        /\ sch.raised > 0 /\ sch.saved > 0
        /\ sch.loops[l].turns = MaxTurns
        /\ sch.error_count = sch.reported + 1

\* C16: when a set of the persistent cache has returned, the cache holds at
\* most max_entries entries.
C16_CacheBounded ==
    cop.op = "set" => Cardinality(pcache.rows) <= pcache.max_entries

\* the rows the last set took out of the cache, the replaced row apart
Evicted == {r \in cop.before : r.content_hash # cop.key} \ pcache.rows

MostRecent(rows, n) ==
    {r \in rows : Cardinality({q \in rows : q.last_accessed > r.last_accessed}) < n}

\* C17: a get right after a set of the same hash returns the vector set and
\* makes the entry the most recently accessed one; the rows a set evicts
\* were accessed before every row that stays; and of the rows present when
\* the cache overflows, the 0.9 * max_entries most recently accessed stay.
C17_EvictionIsLru ==
    /\ cop.op = "get" /\ cop.prev.op = "set" /\ cop.prev.key = cop.key =>
           /\ cop.ret = cop.prev.ret
           /\ \A r \in pcache.rows :
                  r.content_hash # cop.key =>
                      r.last_accessed < RowOf(pcache.rows, cop.key).last_accessed
           /\ RowOf(pcache.rows, cop.key).last_accessed
                  > RowOf(cop.before, cop.key).last_accessed
    /\ cop.op = "set" =>
           /\ \A e \in Evicted : \A r \in pcache.rows :
                  e.last_accessed < r.last_accessed
           /\ MostRecent(pcache.rows \cup Evicted, (9 * pcache.max_entries) \div 10)
                  \subseteq pcache.rows

\* a get refreshed the oldest entry of a full cache and the next set evicted
\* another entry, not the refreshed one
C17_Witness ==
    /\ cop.op = "set" /\ Evicted # {}
    /\ cop.prev.op = "get" /\ cop.prev.ret # NoVector
    /\ cop.prev.key \in HashesOf(pcache.rows)
    /\ \A e \in Evicted : e.content_hash > cop.prev.key

\* C7, in behaviours without any failure: the writes of two sync runs to the
\* issues table never interleave.
C7_WritesSerialized ==
    faults = 0 => \A t \in Tasks : ~run[t].g.interleaved

\* C8, at the instants where no run is writing the state file: the file is
\* absent or holds a complete state, never a partial one.
C8_StateFileAtomic ==
    (\A t \in Tasks : run[t].pc # "saving") => file.kind # "partial"

====
